---- MODULE Spec2Model ----
(***************************************************************************)
(* The financial-document transaction engine of public/api.php:            *)
(*   - get_next_document_number      (sequence allocator, HTTP action)     *)
(*   - getNextDocumentNumberInternal (sequence allocator, in-process)      *)
(*   - create_receipt_with_items_transaction                               *)
(*   - delete_invoice_with_cascade                                         *)
(*   - delete_receipt_with_cascade                                         *)
(* Every request is a process; one step is one SQL statement (or the      *)
(* validation prefix of a handler). The store is MySQL/InnoDB: a           *)
(* statement outside a transaction commits at once; inside a transaction   *)
(* a written row stays locked, and invisible to others, until commit or    *)
(* rollback. Money amounts are exact integers (minor units).               *)
(***************************************************************************)
EXTENDS Integers, Sequences, FiniteSets, TLC

\* ------------------------------------------------------------------ bounds
NProcs == 2
MaxRequests == 2
MaxStoreFailures == 1
MaxRows == 3

\* ------------------------------------------------- constants of the program
Now == 2026
MinYear == 2000
YearSlack == 10
NoRow == -1

ValidTypesEndpoint == {"INV", "PRO", "QT", "PO", "LPO", "DN", "CN", "PAY", "REC"}
ValidTypesInternal == {"INV", "PRO", "QT", "PO", "LPO", "DN", "CN", "PAY", "REC", "RA", "REM"}

\* ------------------------------------------------------- inputs of requests
Procs == 1..NProcs
ReqTypes == {"", "INV", "PAY", "REC", "REM", "XX"}
ReqYears == {0, MinYear - 1, Now, Now + YearSlack + 1}
Keys == {"INV", "PAY", "REC", "REM"} \X {Now}

VARIABLES
    pc,       \* pc[p]: where request p stands in its handler
    req,      \* req[p]: the request's input
    loc,      \* loc[p]: the handler's local variables
    resp,     \* resp[p]: the response of a finished request
    nreq,     \* number of requests received so far
    seq,      \* document_sequences, committed: seq[k] = sequence_number, NoRow if absent
    seqTx,    \* document_sequences as seen by the transaction that locked row k
    seqLock,  \* seqLock[k]: the process whose transaction holds row k, 0 if none
    db,       \* the committed rows of the document tables
    base,     \* base[p]: the tables as request p's transaction found them
    work,     \* work[p]: the tables as request p's transaction sees them
    nextId,   \* AUTO_INCREMENT counters of the document tables
    issued,   \* history: issued[k] = the sequence numbers returned for key k, in order
    asked,    \* history: asked[k] = number of accepted allocation requests for key k
    leaked,   \* history: leaked[k] = a failed call left counter k incremented
    nfail,    \* history: number of store failures so far
    nrows,    \* history: number of rows written through the generic create action
    pre       \* history: pre[p] = the store as it was when request p arrived

vars == <<pc, req, loc, resp, nreq, seq, seqTx, seqLock, db, base, work, nextId,
          issued, asked, leaked, nfail, nrows, pre>>
seqVars == <<seq, seqTx, seqLock>>
dbVars == <<db, base, work, nextId>>

NoReq == [op |-> "none"]
NoLoc == [at |-> "none"]
NoResp == [status |-> "none"]

Tables == {"invoices", "invoice_items", "payments", "payment_allocations",
           "receipts", "receipt_items", "payment_audit_log",
           "credit_note_allocations", "stock_movements"}
EmptyDb == [t \in Tables |-> {}]

\* ------------------------------------------------------- sequence allocator

\* in_array($type, $valid_types) and the year check of get_next_document_number:
\* "ok", or the error the handler throws.
ValidateEndpoint(type, year) ==
    IF type = "" THEN "Missing document type"
    ELSE IF type \notin ValidTypesEndpoint THEN "Invalid document type"
    ELSE IF year # 0 /\ (year < MinYear \/ year > Now + YearSlack) THEN "Invalid year"
    ELSE "ok"

\* The same checks of getNextDocumentNumberInternal.
ValidateInternal(type, year) ==
    IF type \notin ValidTypesInternal THEN "Invalid document type"
    ELSE IF year # 0 /\ (year < MinYear \/ year > Now + YearSlack) THEN "Invalid year"
    ELSE "ok"

\* $year = date('Y') when the request carries none.
YearOf(year) == IF year = 0 THEN Now ELSE year

\* sprintf('%s-%d-%04d', $type, $year, $sequence): the three parts, which the
\* text determines (no part contains the separator).
DocumentNumber(type, year, sequence) == <<type, year, sequence>>

\* The row of key k as process p reads it: its own uncommitted version inside
\* its transaction, the committed one otherwise.
SeqView(p, k) == IF seqLock[k] = p THEN seqTx[k] ELSE seq[k]


\* A counter that moves by two.
IncrementedByTwo(v) == IF v = NoRow THEN NoRow ELSE v + 2

\* "sequence_number = sequence_number + 1": no row, no change.
Incremented(v) == IF v = NoRow THEN NoRow ELSE v + 1

\* COMMIT of process p on document_sequences.
SeqCommit(p) ==
    /\ seq' = [k \in Keys |-> IF seqLock[k] = p THEN seqTx[k] ELSE seq[k]]
    /\ seqLock' = [k \in Keys |-> IF seqLock[k] = p THEN 0 ELSE seqLock[k]]
    /\ seqTx' = [k \in Keys |-> IF seqLock[k] = p THEN NoRow ELSE seqTx[k]]

\* ROLLBACK of process p on document_sequences.
SeqRollback(p) ==
    /\ seq' = seq
    /\ seqLock' = [k \in Keys |-> IF seqLock[k] = p THEN 0 ELSE seqLock[k]]
    /\ seqTx' = [k \in Keys |-> IF seqLock[k] = p THEN NoRow ELSE seqTx[k]]

Finish(p, status, message, data) ==
    /\ pc' = [pc EXCEPT ![p] = IF status = "success" THEN "done" ELSE "failed"]
    /\ resp' = [resp EXCEPT ![p] = [status |-> status, message |-> message, data |-> data]]

Arrive(p, r) ==
    /\ pc[p] = "idle"
    /\ nreq < MaxRequests
    /\ nreq' = nreq + 1
    /\ req' = [req EXCEPT ![p] = r]
    /\ pre' = [pre EXCEPT ![p] = [db |-> db, seq |-> seq, nfail |-> nfail]]

\* get_next_document_number: validation and begin_transaction.
EpStart(p, type, year) ==
    /\ Arrive(p, [op |-> "get_next_document_number", type |-> type, year |-> year])
    /\ LET v == ValidateEndpoint(type, year)
           k == <<type, YearOf(year)>>
       IN IF v = "ok"
          THEN /\ pc' = [pc EXCEPT ![p] = "ep_check"]
               /\ loc' = [loc EXCEPT ![p] = [at |-> "ep", key |-> k, found |-> FALSE,
                                             sequence |-> 0]]
               /\ asked' = [asked EXCEPT ![k] = @ + 1]
               /\ resp' = resp
          ELSE /\ Finish(p, "error", v, <<>>)
               /\ UNCHANGED <<loc, asked>>
    /\ UNCHANGED <<seqVars, dbVars, issued, leaked, nfail, nrows>>

\* SELECT id, sequence_number ... LIMIT 1
EpCheck(p) ==
    /\ pc[p] = "ep_check"
    /\ loc' = [loc EXCEPT ![p].found = (SeqView(p, loc[p].key) # NoRow)]
    /\ pc' = [pc EXCEPT ![p] = IF SeqView(p, loc[p].key) # NoRow THEN "ep_update"
                                                                ELSE "ep_insert"]
    /\ UNCHANGED <<req, resp, nreq, seqVars, dbVars, issued, asked, leaked, nfail, nrows, pre>>

\* INSERT INTO document_sequences ... VALUES (type, year, 0). The unique key
\* (document_type, year) makes it wait for a transaction that holds the row and
\* fail when the row is there.
EpInsert(p) ==
    /\ pc[p] = "ep_insert"
    /\ LET k == loc[p].key
       IN /\ seqLock[k] \in {0, p}
          /\ IF SeqView(p, k) # NoRow
             THEN /\ Finish(p, "error", "Failed to initialize sequence", <<>>)
                  /\ SeqRollback(p)
             ELSE /\ pc' = [pc EXCEPT ![p] = "ep_update"]
                  /\ seqTx' = [seqTx EXCEPT ![k] = 0]
                  /\ seqLock' = [seqLock EXCEPT ![k] = p]
                  /\ UNCHANGED <<seq, resp>>
    /\ UNCHANGED <<req, loc, nreq, dbVars, issued, asked, leaked, nfail, nrows, pre>>

\* UPDATE document_sequences SET sequence_number = sequence_number + 1: waits
\* for the row lock, reads the latest version and keeps the row locked.
EpUpdate(p) ==
    /\ pc[p] = "ep_update"
    /\ LET k == loc[p].key
       IN /\ seqLock[k] \in {0, p}
          /\ seqTx' = [seqTx EXCEPT ![k] = Incremented(SeqView(p, k))]
          /\ seqLock' = [seqLock EXCEPT ![k] = p]
    /\ pc' = [pc EXCEPT ![p] = "ep_fetch"]
    /\ UNCHANGED <<req, loc, resp, nreq, seq, dbVars, issued, asked, leaked, nfail, nrows, pre>>

\* SELECT sequence_number ... LIMIT 1, inside the transaction.
EpFetch(p) ==
    /\ pc[p] = "ep_fetch"
    /\ LET k == loc[p].key
       IN IF SeqView(p, k) = NoRow
          THEN /\ Finish(p, "error", "Failed to fetch sequence number", <<>>)
               /\ SeqRollback(p)
               /\ loc' = loc
          ELSE /\ pc' = [pc EXCEPT ![p] = "ep_commit"]
               /\ loc' = [loc EXCEPT ![p].sequence = SeqView(p, k)]
               /\ UNCHANGED <<seqVars, resp>>
    /\ UNCHANGED <<req, nreq, dbVars, issued, asked, leaked, nfail, nrows, pre>>

\* $conn->commit() and the response.
EpCommit(p) ==
    /\ pc[p] = "ep_commit"
    /\ SeqCommit(p)
    /\ LET k == loc[p].key
       IN /\ Finish(p, "success", "number",
                    [number |-> DocumentNumber(k[1], k[2], loc[p].sequence),
                     type |-> k[1], year |-> k[2], sequence |-> loc[p].sequence])
          /\ issued' = [issued EXCEPT ![k] = Append(@, loc[p].sequence)]
    /\ UNCHANGED <<req, loc, nreq, dbVars, asked, leaked, nfail, nrows, pre>>

\* --------------------------------------- create_receipt_with_items_transaction

\* The caller: without a token, with the token of an active profile that is
\* no admin, with the token of an active admin.
TokenKinds == {"none", "user", "admin"}


\* requireAuthForModification($action, 'receipts'): it throws unless the token
\* names an active profile whose role is an admin role.
RequireAuthForModification(token) == token = "admin"

ItemA == [quantity |-> 1, unit_price |-> 2, tax_amount |-> 0]
ItemB == [quantity |-> 2, unit_price |-> 1, tax_amount |-> 1]

\* ($itemQuantity * $itemPrice) + $itemTax
LineTotal(item) == (item.quantity * item.unit_price) + item.tax_amount

RECURSIVE SumLineTotals(_)
SumLineTotals(items) ==
    IF items = <<>> THEN 0
    ELSE LineTotal(Head(items)) + SumLineTotals(Tail(items))


\* A total that prefers the caller's total_amount to the items.
InvoiceAmountTotalFirst(items, invoice) ==
    IF invoice.has_total THEN invoice.total_amount
    ELSE IF Len(items) > 0 THEN SumLineTotals(items)
    ELSE 0

\* $invoiceAmount: the sum over the items, else invoice.total_amount, else 0.
InvoiceAmountOf(items, invoice) ==
    IF Len(items) > 0 THEN SumLineTotals(items)
    ELSE IF invoice.has_total THEN invoice.total_amount
    ELSE 0

\* $invoiceStatus, $paidAmount and $balanceDue of the created invoice.
CreateStatus(paymentAmount, invoiceAmount) ==
    IF paymentAmount >= invoiceAmount THEN "paid"
    ELSE IF paymentAmount > 0 THEN "partial"
    ELSE "draft"

CreatePaidAmount(paymentAmount, invoiceAmount) ==
    IF paymentAmount >= invoiceAmount THEN invoiceAmount
    ELSE IF paymentAmount > 0 THEN paymentAmount
    ELSE 0


\* A balance that is not floored at zero for an over-payment.
CreateBalanceDueUnfloored(paymentAmount, invoiceAmount) ==
    IF paymentAmount > 0 THEN invoiceAmount - paymentAmount
    ELSE invoiceAmount

CreateBalanceDue(paymentAmount, invoiceAmount) ==
    IF paymentAmount >= invoiceAmount THEN 0
    ELSE IF paymentAmount > 0 THEN invoiceAmount - paymentAmount
    ELSE invoiceAmount

\* The amount of the payment_allocations row written for the payment.
AllocationAmount(paymentAmount, invoiceAmount) == paymentAmount

Max(a, b) == IF a >= b THEN a ELSE b


\* An excess that is not floored at zero.
ExcessAmountSigned(paymentAmount, invoiceAmount) == paymentAmount - invoiceAmount

\* $excessAmount = max(0, $paymentAmount - $invoiceAmount)
ExcessAmount(paymentAmount, invoiceAmount) == Max(0, paymentAmount - invoiceAmount)

\* begin_transaction of process p on the document tables.
DbBegin(p) ==
    /\ base' = [base EXCEPT ![p] = db]
    /\ work' = [work EXCEPT ![p] = db]
    /\ UNCHANGED <<db, nextId>>

\* The committed rows that the transaction of p has deleted or replaced: the
\* rows it read and removed, and for an invoice the row of that id as it is
\* committed now, an UPDATE or DELETE acting on the latest version of a row.
Gone(p, t) ==
    IF t = "invoices"
    THEN {r \in db[t] : \E x \in base[p][t] \ work[p][t] : x.id = r.id}
    ELSE base[p][t] \ work[p][t]

\* Another open transaction has updated or deleted the invoice row and holds
\* its row lock until it commits or rolls back.
InvoiceLocked(p, id) ==
    \E q \in Procs \ {p} : \E x \in base[q].invoices \ work[q].invoices : x.id = id

\* What COMMIT of process p makes of the committed tables: its deleted and
\* replaced rows go, its new rows come.
Committed(p) ==
    [t \in Tables |-> (db[t] \ Gone(p, t)) \union (work[p][t] \ base[p][t])]

\* The first consistent read of a transaction: from here on its SELECTs see
\* the store as it is committed now, and its own writes.
DbSnapshot(p) ==
    /\ base' = [base EXCEPT ![p] = db]
    /\ work' = [work EXCEPT ![p] = db]
    /\ UNCHANGED db

DbCommit(p) ==
    /\ db' = Committed(p)
    /\ base' = [base EXCEPT ![p] = EmptyDb]
    /\ work' = [work EXCEPT ![p] = EmptyDb]


\* A catch block that does not roll back: the rows written so far stay.
RolledBackKeepsWrites(p) == Committed(p)

\* ROLLBACK: nothing the transaction wrote remains.
RolledBack(p) == db

DbRollback(p) ==
    /\ db' = RolledBack(p)
    /\ base' = [base EXCEPT ![p] = EmptyDb]
    /\ work' = [work EXCEPT ![p] = EmptyDb]

\* INSERT of one row by process p inside its transaction.
Insert(p, t, row) == [work EXCEPT ![p][t] = @ \union {row}]

\* The request validation: "ok", or the error thrown before any statement.
ValidateCreate(r) ==
    IF ~RequireAuthForModification(r.token) THEN "Authentication required"
    ELSE IF r.company_id = 0 \/ r.customer_id = 0 THEN "Missing company_id or customer_id"
    ELSE IF ~r.payment.has_amount THEN "Missing or invalid payment data"
    ELSE "ok"

\* A handler that draws a payment number whatever the caller supplies.
AfterInvoiceNumberDrawsPayment(r) == "n_check"

\* Where the handler goes once the invoice number is settled.
AfterInvoiceNumber(r) == IF r.payment.payment_number = <<>> THEN "n_check" ELSE "cr_begin"

CrStart(p, r) ==
    /\ Arrive(p, r)
    /\ r.op = "create_receipt_with_items_transaction"
    /\ IF ValidateCreate(r) = "ok"
       THEN /\ loc' = [loc EXCEPT ![p] =
                   [at |-> "cr",
                    gen |-> IF r.invoice.invoice_number = <<>> THEN "INV" ELSE "PAY",
                    found |-> FALSE,
                    invoiceNumber |-> r.invoice.invoice_number,
                    paymentNumber |-> r.payment.payment_number,
                    invoiceId |-> 0, paymentId |-> 0, allocationId |-> 0,
                    receiptId |-> 0, i |-> 1, wrote |-> 0]]
            /\ pc' = [pc EXCEPT ![p] = IF r.invoice.invoice_number = <<>> THEN "n_check"
                                       ELSE AfterInvoiceNumber(r)]
            /\ resp' = resp
       ELSE /\ Finish(p, "error", ValidateCreate(r), <<>>)
            /\ loc' = loc
    /\ UNCHANGED <<seqVars, dbVars, issued, asked, leaked, nfail, nrows>>

\* Numbers drawn from the counter of the receipts.
GenKeyOfReceipts(p) == <<"REC", YearOf(0)>>

\* getNextDocumentNumberInternal($type), called outside any transaction: each
\* of its statements commits on its own.
GenKey(p) == <<loc[p].gen, YearOf(0)>>

\* SELECT id, sequence_number ... LIMIT 1
NumCheck(p) ==
    /\ pc[p] = "n_check"
    /\ IF ValidateInternal(loc[p].gen, 0) = "ok"
       THEN /\ loc' = [loc EXCEPT ![p].found = (seq[GenKey(p)] # NoRow)]
            /\ pc' = [pc EXCEPT ![p] = IF seq[GenKey(p)] # NoRow THEN "n_update"
                                                                 ELSE "n_insert"]
            /\ resp' = resp
       ELSE /\ Finish(p, "error", "Failed to generate number", <<>>)
            /\ loc' = loc
    /\ UNCHANGED <<req, nreq, seqVars, dbVars, issued, asked, leaked, nfail, nrows, pre>>

\* INSERT INTO document_sequences ... VALUES (type, year, 0)
NumInsert(p) ==
    /\ pc[p] = "n_insert"
    /\ seqLock[GenKey(p)] = 0
    /\ IF seq[GenKey(p)] # NoRow
       THEN /\ Finish(p, "error", "Failed to generate number", <<>>)
            /\ seq' = seq
       ELSE /\ pc' = [pc EXCEPT ![p] = "n_update"]
            /\ seq' = [seq EXCEPT ![GenKey(p)] = 0]
            /\ resp' = resp
    /\ UNCHANGED <<req, loc, nreq, seqTx, seqLock, dbVars, issued, asked, leaked, nfail, nrows, pre>>

\* UPDATE document_sequences SET sequence_number = sequence_number + 1
NumUpdate(p) ==
    /\ pc[p] = "n_update"
    /\ seqLock[GenKey(p)] = 0
    /\ seq' = [seq EXCEPT ![GenKey(p)] = Incremented(@)]
    /\ pc' = [pc EXCEPT ![p] = "n_fetch"]
    /\ UNCHANGED <<req, loc, resp, nreq, seqTx, seqLock, dbVars, issued, asked, leaked, nfail, nrows, pre>>

\* The number getNextDocumentNumberInternal returns: the counter as it is read
\* back by the separate SELECT.
FetchedSequence(p) == seq[GenKey(p)]

\* SELECT sequence_number ... LIMIT 1 and the return of the formatted number.
NumFetch(p) ==
    /\ pc[p] = "n_fetch"
    /\ LET k == GenKey(p)
           n == DocumentNumber(k[1], k[2], FetchedSequence(p))
       IN IF seq[k] = NoRow
          THEN /\ Finish(p, "error", "Failed to generate number", <<>>)
               /\ UNCHANGED <<loc, issued>>
          ELSE /\ issued' = [issued EXCEPT ![k] = Append(@, FetchedSequence(p))]
               /\ resp' = resp
               /\ IF loc[p].gen = "INV"
                  THEN /\ loc' = [loc EXCEPT ![p].invoiceNumber = n, ![p].gen = "PAY"]
                       /\ pc' = [pc EXCEPT ![p] = AfterInvoiceNumber(req[p])]
                  ELSE /\ loc' = [loc EXCEPT ![p].paymentNumber = n]
                       /\ pc' = [pc EXCEPT ![p] = "cr_begin"]
    /\ UNCHANGED <<req, nreq, seqVars, dbVars, asked, leaked, nfail, nrows, pre>>

\* $conn->begin_transaction()
CrBegin(p) ==
    /\ pc[p] = "cr_begin"
    /\ DbBegin(p)
    /\ pc' = [pc EXCEPT ![p] = "cr_invoice"]
    /\ UNCHANGED <<req, loc, resp, nreq, seqVars, issued, asked, leaked, nfail, nrows, pre>>

PaymentAmount(p) == req[p].payment.amount
InvoiceAmount(p) == InvoiceAmountOf(req[p].items, req[p].invoice)

\* A handler that goes from the invoice row straight to the payment row.
AfterInvoiceToPayment(p) == "cr_payment"

\* Step 2 is entered if (is_array($items) && count($items) > 0).
AfterInvoice(p) == IF Len(req[p].items) > 0 THEN "cr_items" ELSE "cr_payment"

\* Step 1: INSERT INTO invoices
CrInvoice(p) ==
    /\ pc[p] = "cr_invoice"
    /\ work' = Insert(p, "invoices",
                 [id |-> nextId.invoices,
                  company_id |-> req[p].company_id,
                  customer_id |-> req[p].customer_id,
                  invoice_number |-> loc[p].invoiceNumber,
                  status |-> CreateStatus(PaymentAmount(p), InvoiceAmount(p)),
                  total_amount |-> InvoiceAmount(p),
                  paid_amount |-> CreatePaidAmount(PaymentAmount(p), InvoiceAmount(p)),
                  balance_due |-> CreateBalanceDue(PaymentAmount(p), InvoiceAmount(p))])
    /\ nextId' = [nextId EXCEPT !.invoices = @ + 1]
    /\ loc' = [loc EXCEPT ![p].invoiceId = nextId.invoices, ![p].i = 1, ![p].wrote = @ + 1]
    /\ pc' = [pc EXCEPT ![p] = AfterInvoice(p)]
    /\ UNCHANGED <<req, resp, nreq, seqVars, db, base, issued, asked, leaked, nfail, nrows, pre>>

\* One row of invoice_items resp. receipt_items, as the two item loops compute
\* it; sort_order is $index + 1.
InvoiceItemRow(invoiceId, item, index) ==
    [invoice_id |-> invoiceId, sort_order |-> index,
     quantity |-> item.quantity, unit_price |-> item.unit_price,
     tax_amount |-> item.tax_amount, line_total |-> LineTotal(item)]

ReceiptItemRow(receiptId, item, index) ==
    [receipt_id |-> receiptId, sort_order |-> index,
     quantity |-> item.quantity, unit_price |-> item.unit_price,
     tax_amount |-> item.tax_amount, line_total |-> LineTotal(item)]

\* Step 2: INSERT INTO invoice_items, one item of the loop
CrItem(p) ==
    /\ pc[p] = "cr_items"
    /\ work' = Insert(p, "invoice_items",
                      InvoiceItemRow(loc[p].invoiceId, req[p].items[loc[p].i], loc[p].i))
    /\ loc' = [loc EXCEPT ![p].i = IF loc[p].i < Len(req[p].items) THEN @ + 1 ELSE 1,
                          ![p].wrote = @ + 1]
    /\ pc' = [pc EXCEPT ![p] = IF loc[p].i < Len(req[p].items) THEN "cr_items"
                                                              ELSE "cr_payment"]
    /\ UNCHANGED <<req, resp, nreq, seqVars, db, base, nextId, issued, asked, leaked, nfail, nrows, pre>>

\* Step 3: INSERT INTO payments
CrPayment(p) ==
    /\ pc[p] = "cr_payment"
    /\ work' = Insert(p, "payments",
                 [id |-> nextId.payments,
                  company_id |-> req[p].company_id,
                  invoice_id |-> loc[p].invoiceId,
                  amount |-> PaymentAmount(p),
                  payment_number |-> loc[p].paymentNumber])
    /\ nextId' = [nextId EXCEPT !.payments = @ + 1]
    /\ loc' = [loc EXCEPT ![p].paymentId = nextId.payments, ![p].wrote = @ + 1]
    /\ pc' = [pc EXCEPT ![p] = "cr_allocation"]
    /\ UNCHANGED <<req, resp, nreq, seqVars, db, base, issued, asked, leaked, nfail, nrows, pre>>

\* Step 4: INSERT INTO payment_allocations
CrAllocation(p) ==
    /\ pc[p] = "cr_allocation"
    /\ work' = Insert(p, "payment_allocations",
                 [id |-> nextId.payment_allocations,
                  payment_id |-> loc[p].paymentId,
                  invoice_id |-> loc[p].invoiceId,
                  amount |-> AllocationAmount(PaymentAmount(p), InvoiceAmount(p))])
    /\ nextId' = [nextId EXCEPT !.payment_allocations = @ + 1]
    /\ loc' = [loc EXCEPT ![p].allocationId = nextId.payment_allocations, ![p].wrote = @ + 1]
    /\ pc' = [pc EXCEPT ![p] = "cr_receipt"]
    /\ UNCHANGED <<req, resp, nreq, seqVars, db, base, issued, asked, leaked, nfail, nrows, pre>>

\* 'REC-' . substr((string)time(), -6) . strtoupper(substr(md5(uniqid()), 0, 6))
ReceiptNumber == <<"REC", "time", "uniqid">>

\* Step 5: INSERT INTO receipts
CrReceipt(p) ==
    /\ pc[p] = "cr_receipt"
    /\ work' = Insert(p, "receipts",
                 [id |-> nextId.receipts,
                  company_id |-> req[p].company_id,
                  payment_id |-> loc[p].paymentId,
                  invoice_id |-> loc[p].invoiceId,
                  receipt_number |-> ReceiptNumber,
                  total_amount |-> PaymentAmount(p),
                  excess_amount |-> ExcessAmount(PaymentAmount(p), InvoiceAmount(p)),
                  excess_handling |-> "pending"])
    /\ nextId' = [nextId EXCEPT !.receipts = @ + 1]
    /\ loc' = [loc EXCEPT ![p].receiptId = nextId.receipts, ![p].i = 1, ![p].wrote = @ + 1]
    /\ pc' = [pc EXCEPT ![p] = IF Len(req[p].items) > 0 THEN "cr_ritems" ELSE "cr_commit"]
    /\ UNCHANGED <<req, resp, nreq, seqVars, db, base, issued, asked, leaked, nfail, nrows, pre>>

\* Step 6: INSERT INTO receipt_items, one item of the loop
CrReceiptItem(p) ==
    /\ pc[p] = "cr_ritems"
    /\ work' = Insert(p, "receipt_items",
                      ReceiptItemRow(loc[p].receiptId, req[p].items[loc[p].i], loc[p].i))
    /\ loc' = [loc EXCEPT ![p].i = IF loc[p].i < Len(req[p].items) THEN @ + 1 ELSE 1,
                          ![p].wrote = @ + 1]
    /\ pc' = [pc EXCEPT ![p] = IF loc[p].i < Len(req[p].items) THEN "cr_ritems"
                                                              ELSE "cr_commit"]
    /\ UNCHANGED <<req, resp, nreq, seqVars, db, base, nextId, issued, asked, leaked, nfail, nrows, pre>>


\* A query that lost its WHERE id = ... clause.
RowsIgnoringId(tables, t, id) == tables[t]

\* The row of table t with the given id, as a set (empty when there is none).
RowsById(tables, t, id) == {r \in tables[t] : r.id = id}

\* $conn->commit() and the response with the rows read back.
CrCommit(p) ==
    /\ pc[p] = "cr_commit"
    /\ DbCommit(p)
    /\ Finish(p, "success", "Receipt created successfully with transaction safety",
              [invoice |-> RowsById(Committed(p), "invoices", loc[p].invoiceId),
               payment |-> RowsById(Committed(p), "payments", loc[p].paymentId),
               receipt |-> RowsById(Committed(p), "receipts", loc[p].receiptId),
               allocation |-> loc[p].allocationId,
               excess_amount |-> ExcessAmount(PaymentAmount(p), InvoiceAmount(p))])
    /\ UNCHANGED <<req, loc, nreq, seqVars, nextId, issued, asked, leaked, nfail, nrows, pre>>

\* ------------------------------------------------- delete_invoice_with_cascade

\* DELETE FROM t WHERE cond, by process p inside its transaction.
Delete(p, t, gone) == [work EXCEPT ![p][t] = @ \ gone]

Step(p, next) ==
    /\ pc' = [pc EXCEPT ![p] = next]
    /\ UNCHANGED <<req, resp, nreq, seqVars, db, base, nextId, issued, asked, leaked, nfail, nrows, pre>>

\* The handler checks no authorization: whatever the caller's token, it reads
\* invoice_id and begins.
DiStart(p, token, invoice_id) ==
    /\ Arrive(p, [op |-> "delete_invoice_with_cascade", token |-> token,
                  invoice_id |-> invoice_id])
    /\ IF invoice_id # 0
       THEN /\ pc' = [pc EXCEPT ![p] = "di_begin"]
            /\ loc' = [loc EXCEPT ![p] = [at |-> "di", invoice_id |-> invoice_id,
                                          payment_ids |-> {}]]
            /\ resp' = resp
       ELSE /\ Finish(p, "error", "Missing invoice_id parameter", <<>>)
            /\ loc' = loc
    /\ UNCHANGED <<seqVars, dbVars, issued, asked, leaked, nfail, nrows>>

DiBegin(p) ==
    /\ pc[p] = "di_begin"
    /\ DbBegin(p)
    /\ pc' = [pc EXCEPT ![p] = "di_select"]
    /\ UNCHANGED <<req, loc, resp, nreq, seqVars, issued, asked, leaked, nfail, nrows, pre>>

\* Step 1: SELECT * FROM invoices WHERE id = ...; "Invoice not found" rolls back.
DiSelect(p) ==
    /\ pc[p] = "di_select"
    /\ IF RowsById(db, "invoices", loc[p].invoice_id) = {}
       THEN /\ Finish(p, "error", "Invoice not found", <<>>)
            /\ DbRollback(p)
       ELSE /\ pc' = [pc EXCEPT ![p] = "di_payments"]
            /\ DbSnapshot(p)
            /\ resp' = resp
    /\ UNCHANGED <<req, loc, nreq, seqVars, nextId, issued, asked, leaked, nfail, nrows, pre>>

\* Step 2: the payments linked to the invoice directly or through an allocation.
RelatedPaymentIds(tables, invoice_id) ==
    {x.id : x \in {y \in tables.payments :
                     \/ y.invoice_id = invoice_id
                     \/ \E a \in tables.payment_allocations :
                            a.invoice_id = invoice_id /\ a.payment_id = y.id}}

\* A handler that deletes the payments first of all.
AfterRelatedPaymentsToPayments(p) == "di_payments_delete"

\* Steps 3 and 4 are entered if (!empty($payment_ids)).
AfterRelatedPayments(p) ==
    IF RelatedPaymentIds(work[p], loc[p].invoice_id) # {} THEN "di_audit" ELSE "di_allocations"

DiPayments(p) ==
    /\ pc[p] = "di_payments"
    /\ loc' = [loc EXCEPT ![p].payment_ids = RelatedPaymentIds(work[p], loc[p].invoice_id)]
    /\ pc' = [pc EXCEPT ![p] = AfterRelatedPayments(p)]
    /\ UNCHANGED <<req, resp, nreq, seqVars, dbVars, issued, asked, leaked, nfail, nrows, pre>>

\* Step 3: DELETE FROM payment_audit_log WHERE payment_id IN (...) OR invoice_id = ...
DiAudit(p) ==
    /\ pc[p] = "di_audit"
    /\ work' = Delete(p, "payment_audit_log",
                      {x \in work[p].payment_audit_log :
                          x.payment_id \in loc[p].payment_ids \/ x.invoice_id = loc[p].invoice_id})
    /\ loc' = loc
    /\ Step(p, "di_receipt_items")

\* Step 4: DELETE FROM receipt_items WHERE receipt_id IN (SELECT id FROM receipts ...)
DiReceiptItems(p) ==
    /\ pc[p] = "di_receipt_items"
    /\ work' = Delete(p, "receipt_items",
                      {x \in work[p].receipt_items :
                          \E r \in work[p].receipts :
                              r.id = x.receipt_id /\ r.payment_id \in loc[p].payment_ids})
    /\ loc' = loc
    /\ Step(p, "di_receipts")

\* Step 4: DELETE FROM receipts WHERE payment_id IN (...)
DiReceipts(p) ==
    /\ pc[p] = "di_receipts"
    /\ work' = Delete(p, "receipts",
                      {x \in work[p].receipts : x.payment_id \in loc[p].payment_ids})
    /\ loc' = loc
    /\ Step(p, "di_allocations")

\* Step 5: DELETE FROM payment_allocations WHERE invoice_id = ...
DiAllocations(p) ==
    /\ pc[p] = "di_allocations"
    /\ work' = Delete(p, "payment_allocations",
                      {x \in work[p].payment_allocations : x.invoice_id = loc[p].invoice_id})
    /\ loc' = loc
    /\ Step(p, "di_payments_delete")

\* Step 6: DELETE FROM payments WHERE invoice_id = ...
DiPaymentsDelete(p) ==
    /\ pc[p] = "di_payments_delete"
    /\ work' = Delete(p, "payments",
                      {x \in work[p].payments : x.invoice_id = loc[p].invoice_id})
    /\ loc' = loc
    /\ Step(p, "di_credit")

\* Step 7: DELETE FROM credit_note_allocations WHERE invoice_id = ...
DiCredit(p) ==
    /\ pc[p] = "di_credit"
    /\ work' = Delete(p, "credit_note_allocations",
                      {x \in work[p].credit_note_allocations :
                          x.invoice_id = loc[p].invoice_id})
    /\ loc' = loc
    /\ Step(p, "di_stock")

\* Step 8: DELETE FROM stock_movements WHERE reference_type = 'INVOICE' AND reference_id = ...
DiStock(p) ==
    /\ pc[p] = "di_stock"
    /\ work' = Delete(p, "stock_movements",
                      {x \in work[p].stock_movements :
                          x.reference_type = "INVOICE" /\ x.reference_id = loc[p].invoice_id})
    /\ loc' = loc
    /\ Step(p, "di_items")

\* Step 9: DELETE FROM invoice_items WHERE invoice_id = ...
DiItems(p) ==
    /\ pc[p] = "di_items"
    /\ work' = Delete(p, "invoice_items",
                      {x \in work[p].invoice_items : x.invoice_id = loc[p].invoice_id})
    /\ loc' = loc
    /\ Step(p, "di_invoice")

\* Step 10: DELETE FROM invoices WHERE id = ...
DiInvoice(p) ==
    /\ pc[p] = "di_invoice"
    /\ ~InvoiceLocked(p, loc[p].invoice_id)
    /\ work' = Delete(p, "invoices", RowsById(work[p], "invoices", loc[p].invoice_id))
    /\ loc' = loc
    /\ Step(p, "di_commit")

DiCommit(p) ==
    /\ pc[p] = "di_commit"
    /\ DbCommit(p)
    /\ Finish(p, "success", "Invoice and all related records deleted successfully",
              [invoice_id |-> loc[p].invoice_id,
               payments_count |-> Cardinality(loc[p].payment_ids)])
    /\ UNCHANGED <<req, loc, nreq, seqVars, nextId, issued, asked, leaked, nfail, nrows, pre>>

\* ------------------------------------------------- delete_receipt_with_cascade

\* A validation that leaves every receipt_id to the SELECT of step 1.
ValidateDeleteReceiptAnyId(token, receipt_id) ==
    IF ~RequireAuthForModification(token) THEN "Authentication required" ELSE "ok"

ValidateDeleteReceipt(token, receipt_id) ==
    IF ~RequireAuthForModification(token) THEN "Authentication required"
    ELSE IF receipt_id = 0 THEN "Missing receipt_id parameter"
    ELSE IF receipt_id < 0 THEN "Invalid receipt_id: must be a positive integer"
    ELSE "ok"

DrStart(p, token, receipt_id) ==
    /\ Arrive(p, [op |-> "delete_receipt_with_cascade", token |-> token,
                  receipt_id |-> receipt_id])
    /\ IF ValidateDeleteReceipt(token, receipt_id) = "ok"
       THEN /\ pc' = [pc EXCEPT ![p] = "dr_begin"]
            /\ loc' = [loc EXCEPT ![p] = [at |-> "dr", receiptId |-> receipt_id,
                                          invoiceId |-> 0, paymentId |-> 0,
                                          receiptAmount |-> 0, total_amount |-> 0,
                                          paid_amount |-> 0]]
            /\ resp' = resp
       ELSE /\ Finish(p, "error", ValidateDeleteReceipt(token, receipt_id), <<>>)
            /\ loc' = loc
    /\ UNCHANGED <<seqVars, dbVars, issued, asked, leaked, nfail, nrows>>

DrBegin(p) ==
    /\ pc[p] = "dr_begin"
    /\ DbBegin(p)
    /\ pc' = [pc EXCEPT ![p] = "dr_select"]
    /\ UNCHANGED <<req, loc, resp, nreq, seqVars, issued, asked, leaked, nfail, nrows, pre>>

\* Step 1: SELECT * FROM receipts WHERE id = ...; "Receipt not found" rolls back.
DrSelect(p) ==
    /\ pc[p] = "dr_select"
    /\ LET found == RowsById(db, "receipts", loc[p].receiptId)
       IN IF found = {}
          THEN /\ Finish(p, "error", "Receipt not found", <<>>)
               /\ DbRollback(p)
               /\ loc' = loc
          ELSE /\ pc' = [pc EXCEPT ![p] = "dr_items"]
               /\ loc' = [loc EXCEPT ![p].invoiceId = (CHOOSE r \in found : TRUE).invoice_id,
                                     ![p].paymentId = (CHOOSE r \in found : TRUE).payment_id,
                                     ![p].receiptAmount = (CHOOSE r \in found : TRUE).total_amount]
               /\ DbSnapshot(p)
               /\ resp' = resp
    /\ UNCHANGED <<req, nreq, seqVars, nextId, issued, asked, leaked, nfail, nrows, pre>>

\* Where the handler goes after the payment of the receipt is dealt with.
AfterPayment(p) == IF loc[p].invoiceId # 0 THEN "dr_invoice" ELSE "dr_receipt"

\* A handler that goes from the receipt items straight to the invoice.
AfterItemsToInvoice(p) == AfterPayment(p)

\* Steps 3, 4 and 5 are entered if ($paymentId).
AfterItems(p) == IF loc[p].paymentId # 0 THEN "dr_audit" ELSE AfterPayment(p)

\* Step 2: DELETE FROM receipt_items WHERE receipt_id = ...
DrItems(p) ==
    /\ pc[p] = "dr_items"
    /\ work' = Delete(p, "receipt_items",
                      {x \in work[p].receipt_items : x.receipt_id = loc[p].receiptId})
    /\ loc' = loc
    /\ Step(p, AfterItems(p))

\* Step 3: DELETE FROM payment_audit_log WHERE payment_id = ...
DrAudit(p) ==
    /\ pc[p] = "dr_audit"
    /\ work' = Delete(p, "payment_audit_log",
                      {x \in work[p].payment_audit_log : x.payment_id = loc[p].paymentId})
    /\ loc' = loc
    /\ Step(p, "dr_allocations")

\* Step 4: DELETE FROM payment_allocations WHERE payment_id = ...
DrAllocations(p) ==
    /\ pc[p] = "dr_allocations"
    /\ work' = Delete(p, "payment_allocations",
                      {x \in work[p].payment_allocations : x.payment_id = loc[p].paymentId})
    /\ loc' = loc
    /\ Step(p, "dr_payment")

\* Step 5: DELETE FROM payments WHERE id = ...
DrPayment(p) ==
    /\ pc[p] = "dr_payment"
    /\ work' = Delete(p, "payments", RowsById(work[p], "payments", loc[p].paymentId))
    /\ loc' = loc
    /\ Step(p, AfterPayment(p))

\* Step 6a: SELECT id, total_amount, status FROM invoices WHERE id = ...
DrInvoice(p) ==
    /\ pc[p] = "dr_invoice"
    /\ LET found == RowsById(work[p], "invoices", loc[p].invoiceId)
       IN IF found = {}
          THEN /\ pc' = [pc EXCEPT ![p] = "dr_receipt"]
               /\ loc' = loc
          ELSE /\ pc' = [pc EXCEPT ![p] = "dr_sum"]
               /\ loc' = [loc EXCEPT ![p].total_amount = (CHOOSE r \in found : TRUE).total_amount]
    /\ UNCHANGED <<req, resp, nreq, seqVars, dbVars, issued, asked, leaked, nfail, nrows, pre>>

RECURSIVE SumAmounts(_)
SumAmounts(rows) ==
    IF rows = {} THEN 0
    ELSE LET r == CHOOSE x \in rows : TRUE
         IN r.amount + SumAmounts(rows \ {r})


\* A sum over the allocations of every invoice.
PaidSumOfAllInvoices(tables, invoice_id) == SumAmounts(tables.payment_allocations)

\* SELECT COALESCE(SUM(pa.amount), 0) FROM payment_allocations pa WHERE pa.invoice_id = ...
PaidSum(tables, invoice_id) ==
    SumAmounts({a \in tables.payment_allocations : a.invoice_id = invoice_id})

\* Step 6c
DrSum(p) ==
    /\ pc[p] = "dr_sum"
    /\ loc' = [loc EXCEPT ![p].paid_amount = PaidSum(work[p], loc[p].invoiceId)]
    /\ pc' = [pc EXCEPT ![p] = "dr_update"]
    /\ UNCHANGED <<req, resp, nreq, seqVars, dbVars, issued, asked, leaked, nfail, nrows, pre>>

\* $balance_due = max(0, floatval($total_amount) - $paid_amount)
RecomputeBalanceDue(total_amount, paid_amount) == Max(0, total_amount - paid_amount)


\* A status that takes "paid" for strictly more than the total only.
RecomputeStatusStrict(total_amount, paid_amount) ==
    IF paid_amount > total_amount THEN "paid"
    ELSE IF paid_amount > 0 THEN "partial"
    ELSE "draft"

\* $new_status
RecomputeStatus(total_amount, paid_amount) ==
    IF paid_amount >= total_amount THEN "paid"
    ELSE IF paid_amount > 0 THEN "partial"
    ELSE "draft"

\* Step 6e: UPDATE invoices SET status, paid_amount, balance_due WHERE id = ...
DrUpdate(p) ==
    /\ pc[p] = "dr_update"
    /\ ~InvoiceLocked(p, loc[p].invoiceId)
    /\ work' = [work EXCEPT ![p].invoices =
                  {r \in @ : r.id # loc[p].invoiceId} \union
                  {[r EXCEPT !.status = RecomputeStatus(loc[p].total_amount,
                                                        loc[p].paid_amount),
                             !.paid_amount = loc[p].paid_amount,
                             !.balance_due = RecomputeBalanceDue(loc[p].total_amount,
                                                                 loc[p].paid_amount)] :
                      r \in RowsById(db, "invoices", loc[p].invoiceId)}]
    /\ loc' = loc
    /\ Step(p, "dr_receipt")

\* Step 7: DELETE FROM receipts WHERE id = ...
DrReceipt(p) ==
    /\ pc[p] = "dr_receipt"
    /\ work' = Delete(p, "receipts", RowsById(work[p], "receipts", loc[p].receiptId))
    /\ loc' = loc
    /\ Step(p, "dr_commit")

DrCommit(p) ==
    /\ pc[p] = "dr_commit"
    /\ DbCommit(p)
    /\ Finish(p, "success", "Receipt and all related records deleted successfully",
              [receipt_id |-> loc[p].receiptId, invoice_id |-> loc[p].invoiceId,
               payment_id |-> loc[p].paymentId, amount_reversed |-> loc[p].receiptAmount])
    /\ UNCHANGED <<req, loc, nreq, seqVars, nextId, issued, asked, leaked, nfail, nrows, pre>>

\* ------------------------------------------------------------ useDeleteInvoice

\* The client-side mutation: a sequence of apiClient calls, each one request
\* of its own to the read resp. delete action, which commits on its own. A
\* call that fails (fails = TRUE) returns an error and changes nothing.
ApiCall(fails) ==
    IF fails THEN nfail < MaxStoreFailures /\ nfail' = nfail + 1 ELSE nfail' = nfail

UdStart(p, invoiceId) ==
    /\ Arrive(p, [op |-> "useDeleteInvoice", token |-> "admin", invoice_id |-> invoiceId])
    /\ pc' = [pc EXCEPT ![p] = "ud_select_items"]
    /\ loc' = [loc EXCEPT ![p] = [at |-> "ud", invoice_id |-> invoiceId,
                                  invoiceItems |-> {}, allocations |-> {}]]
    /\ UNCHANGED <<resp, seqVars, dbVars, issued, asked, leaked, nfail, nrows>>

\* Step 1: apiClient.select('invoice_items', { invoice_id }); an error is a
\* warning and the mutation goes on.
UdSelectItems(p, fails) ==
    /\ pc[p] = "ud_select_items"
    /\ ApiCall(fails)
    /\ LET rows == {x \in db.invoice_items : x.invoice_id = loc[p].invoice_id}
       IN IF fails \/ rows = {}
          THEN /\ pc' = [pc EXCEPT ![p] = "ud_select_allocations"]
               /\ loc' = loc
          ELSE /\ pc' = [pc EXCEPT ![p] = "ud_items"]
               /\ loc' = [loc EXCEPT ![p].invoiceItems = rows]
    /\ UNCHANGED <<req, resp, nreq, seqVars, dbVars, issued, asked, leaked, nrows, pre>>

\* for (const item of invoiceItems) apiClient.delete('invoice_items', item.id);
\* an error is a warning and the loop goes on.
UdDeleteItem(p, item, fails) ==
    /\ pc[p] = "ud_items"
    /\ item \in loc[p].invoiceItems
    /\ \A x \in loc[p].invoiceItems : item.sort_order <= x.sort_order
    /\ ApiCall(fails)
    /\ db' = IF fails THEN db ELSE [db EXCEPT !.invoice_items = @ \ {item}]
    /\ loc' = [loc EXCEPT ![p].invoiceItems = @ \ {item}]
    /\ pc' = [pc EXCEPT ![p] = IF loc[p].invoiceItems = {item} THEN "ud_select_allocations"
                                                               ELSE "ud_items"]
    /\ UNCHANGED <<req, resp, nreq, seqVars, base, work, nextId, issued, asked, leaked, nrows, pre>>

\* Step 2: apiClient.select('payment_allocations', { invoice_id })
UdSelectAllocations(p, fails) ==
    /\ pc[p] = "ud_select_allocations"
    /\ ApiCall(fails)
    /\ LET rows == {x \in db.payment_allocations : x.invoice_id = loc[p].invoice_id}
       IN IF fails \/ rows = {}
          THEN /\ pc' = [pc EXCEPT ![p] = "ud_invoice"]
               /\ loc' = loc
          ELSE /\ pc' = [pc EXCEPT ![p] = "ud_allocations"]
               /\ loc' = [loc EXCEPT ![p].allocations = rows]
    /\ UNCHANGED <<req, resp, nreq, seqVars, dbVars, issued, asked, leaked, nrows, pre>>

\* for (const allocation of allocations) apiClient.delete('payment_allocations', allocation.id)
UdDeleteAllocation(p, allocation, fails) ==
    /\ pc[p] = "ud_allocations"
    /\ allocation \in loc[p].allocations
    /\ \A x \in loc[p].allocations : allocation.id <= x.id
    /\ ApiCall(fails)
    /\ db' = IF fails THEN db
             ELSE [db EXCEPT !.payment_allocations = {x \in @ : x.id # allocation.id}]
    /\ loc' = [loc EXCEPT ![p].allocations = @ \ {allocation}]
    /\ pc' = [pc EXCEPT ![p] = IF loc[p].allocations = {allocation} THEN "ud_invoice"
                                                                    ELSE "ud_allocations"]
    /\ UNCHANGED <<req, resp, nreq, seqVars, base, work, nextId, issued, asked, leaked, nrows, pre>>

\* Step 3: apiClient.delete('invoices', invoiceId); an error is thrown.
UdDeleteInvoice(p, fails) ==
    /\ pc[p] = "ud_invoice"
    /\ ApiCall(fails)
    /\ IF fails
       THEN /\ Finish(p, "error", "Delete failed", <<>>)
            /\ db' = db
       ELSE /\ Finish(p, "success", "Invoice deleted successfully!",
                      [success |-> TRUE, invoiceId |-> loc[p].invoice_id])
            /\ db' = [db EXCEPT !.invoices = {x \in @ : x.id # loc[p].invoice_id}]
    /\ UNCHANGED <<req, loc, nreq, seqVars, base, work, nextId, issued, asked, leaked, nrows, pre>>

\* ------------------------------------------------------- the "create" action

\* The tables whose id is the store's AUTO_INCREMENT value ($conn->insert_id).
AutoIdTables == {"invoices", "payments", "payment_allocations", "receipts"}

\* The row the generic create action writes: $data, with the id the store
\* assigns unless $data carries one.
CreatedRow(table, data) ==
    IF table \in AutoIdTables
    THEN [f \in DOMAIN data \union {"id"} |-> IF f = "id" THEN nextId[table] ELSE data[f]]
    ELSE data

\* action=create on a table that is not protected: one INSERT, committed at
\* once, with no authorization check; a row whose primary key exists already
\* makes the INSERT fail and changes nothing.
Create(p, table, data) ==
    /\ pc[p] = "idle"
    /\ nrows < MaxRows
    /\ nrows' = nrows + 1
    /\ IF \E r \in db[table] : r.id = CreatedRow(table, data).id
       THEN UNCHANGED <<db, nextId>>
       ELSE /\ db' = [db EXCEPT ![table] = @ \union {CreatedRow(table, data)}]
            /\ nextId' = IF table \in AutoIdTables
                         THEN [nextId EXCEPT ![table] = @ + 1] ELSE nextId
    /\ UNCHANGED <<pc, req, loc, resp, nreq, seqVars, base, work, issued, asked, leaked,
                   nfail, pre>>

\* ------------------------------------------------------------ store failures

\* The statements whose failure the handlers test for and turn into an
\* exception: $conn->query(...) returning false, begin_transaction or commit
\* returning false.
InSeqTx == {"ep_insert", "ep_update", "ep_fetch"}
InAutocommit == {"n_insert", "n_update", "n_fetch"}
AtBegin == {"cr_begin", "di_begin", "dr_begin"}
InDbTx == {"cr_invoice", "cr_items", "cr_payment", "cr_allocation", "cr_receipt",
           "cr_ritems", "cr_commit",
           "di_select", "di_audit", "di_receipt_items", "di_receipts", "di_allocations",
           "di_payments_delete", "di_credit", "di_stock", "di_items", "di_invoice",
           "di_commit",
           "dr_select", "dr_items", "dr_audit", "dr_allocations", "dr_payment",
           "dr_invoice", "dr_sum", "dr_update", "dr_receipt", "dr_commit"}

\* The statement process p is about to run fails: the catch block rolls the
\* transaction back (when there is one) and the request ends with the error.
StoreFailure(p) ==
    /\ pc[p] \in InSeqTx \union InAutocommit \union AtBegin \union InDbTx
    /\ nfail < MaxStoreFailures
    /\ nfail' = nfail + 1
    /\ Finish(p, "error", "store failure", <<>>)
    /\ IF pc[p] \in InSeqTx THEN SeqRollback(p) ELSE UNCHANGED seqVars
    /\ IF pc[p] \in InDbTx THEN DbRollback(p) ELSE UNCHANGED <<db, base, work>>
    /\ leaked' = IF pc[p] = "n_fetch" /\ seq[GenKey(p)] # NoRow
                 THEN [leaked EXCEPT ![GenKey(p)] = TRUE] ELSE leaked
    /\ UNCHANGED <<req, loc, nreq, nextId, issued, asked, nrows, pre>>

\* The SELECT of step 2 of delete_invoice_with_cascade fails. Its result is
\* not tested: where the driver reports a failed query by throwing, the catch
\* block rolls back; where query() returns false, $payment_ids stays empty,
\* steps 3 and 4 are skipped and the plan goes on.
DiPaymentsFails(p, throws) ==
    /\ pc[p] = "di_payments"
    /\ nfail < MaxStoreFailures
    /\ nfail' = nfail + 1
    /\ IF throws
       THEN /\ Finish(p, "error", "store failure", <<>>)
            /\ DbRollback(p)
            /\ loc' = loc
       ELSE /\ pc' = [pc EXCEPT ![p] = "di_allocations"]
            /\ loc' = [loc EXCEPT ![p].payment_ids = {}]
            /\ UNCHANGED <<resp, db, base, work>>
    /\ UNCHANGED <<req, nreq, seqVars, nextId, issued, asked, leaked, nrows, pre>>

\* The response is sent and the process serves the next request.
NoPre == [db |-> EmptyDb, seq |-> [k \in Keys |-> NoRow], nfail |-> 0]

Return(p) ==
    /\ pc[p] \in {"done", "failed"}
    /\ pc' = [pc EXCEPT ![p] = "idle"]
    /\ req' = [req EXCEPT ![p] = NoReq]
    /\ loc' = [loc EXCEPT ![p] = NoLoc]
    /\ resp' = [resp EXCEPT ![p] = NoResp]
    /\ pre' = [pre EXCEPT ![p] = NoPre]
    /\ UNCHANGED <<nreq, seqVars, dbVars, issued, asked, leaked, nfail, nrows>>

\* ------------------------------------------------------------ specifications

Init ==
    /\ pc = [p \in Procs |-> "idle"]
    /\ req = [p \in Procs |-> NoReq]
    /\ loc = [p \in Procs |-> NoLoc]
    /\ resp = [p \in Procs |-> NoResp]
    /\ nreq = 0
    /\ seq = [k \in Keys |-> NoRow]
    /\ seqTx = [k \in Keys |-> NoRow]
    /\ seqLock = [k \in Keys |-> 0]
    /\ db = EmptyDb
    /\ base = [p \in Procs |-> EmptyDb]
    /\ work = [p \in Procs |-> EmptyDb]
    /\ nextId = [invoices |-> 1, payments |-> 1, payment_allocations |-> 1, receipts |-> 1]
    /\ issued = [k \in Keys |-> <<>>]
    /\ asked = [k \in Keys |-> 0]
    /\ leaked = [k \in Keys |-> FALSE]
    /\ nfail = 0
    /\ nrows = 0
    /\ pre = [p \in Procs |-> NoPre]

\* The requests of create_receipt_with_items_transaction.
CreateRequest(token, company_id, customer_id, payment, invoice, items) ==
    [op |-> "create_receipt_with_items_transaction", token |-> token,
     company_id |-> company_id, customer_id |-> customer_id,
     payment |-> payment, invoice |-> invoice, items |-> items]

\* A number the caller supplies; <<>> stands for none (empty()).
CallerInvoiceNumber == DocumentNumber("INV", Now, 7)
CallerPaymentNumber == DocumentNumber("PAY", Now, 7)

Payments ==
    [has_amount : {TRUE}, amount : {-1, 0, 2, 5, 7}, payment_number : {<<>>}]
    \union [has_amount : {TRUE}, amount : {2}, payment_number : {CallerPaymentNumber}]
    \union [has_amount : {FALSE}, amount : {0}, payment_number : {<<>>}]

Invoices ==
    [has_total : {FALSE}, total_amount : {0}, invoice_number : {<<>>, CallerInvoiceNumber}]
    \union [has_total : {TRUE}, total_amount : {2}, invoice_number : {<<>>}]

ItemLists == {<<>>, <<ItemA, ItemB>>}

\* Every amount against no items, no items and a total, and two items; a
\* caller's own numbers with the two items.
CreateRequests ==
    {CreateRequest("admin", 1, 1, pay, inv, items) :
        pay \in {x \in Payments : x.payment_number = <<>>},
        inv \in {x \in Invoices : x.invoice_number = <<>>},
        items \in ItemLists}
    \union {CreateRequest("admin", 1, 1, pay, inv, <<ItemA, ItemB>>) :
        pay \in {x \in Payments : x.amount = 2}, inv \in {x \in Invoices : ~x.has_total}}
    \union {CreateRequest(token, 1, 1, [has_amount |-> TRUE, amount |-> 2, payment_number |-> <<>>],
                          [has_total |-> FALSE, total_amount |-> 0, invoice_number |-> <<>>],
                          <<ItemA, ItemB>>) : token \in TokenKinds \ {"admin"}}
    \union {
            CreateRequest("admin", 0, 1, [has_amount |-> TRUE, amount |-> 2, payment_number |-> <<>>],
                          [has_total |-> FALSE, total_amount |-> 0, invoice_number |-> <<>>],
                          <<ItemA, ItemB>>),
            CreateRequest("admin", 1, 0, [has_amount |-> TRUE, amount |-> 2, payment_number |-> <<>>],
                          [has_total |-> FALSE, total_amount |-> 0, invoice_number |-> <<>>],
                          <<ItemA, ItemB>>)}

\* Ids a delete request may name: the rows there can be, none (0), and an id
\* no row has yet.
RequestIds == 0..MaxRequests

\* One request at a time, every handler, with store failures.
SerialProcs == {1}

Next ==
    \E p \in SerialProcs :
        \/ \E type \in ReqTypes, year \in ReqYears : EpStart(p, type, year)
        \/ EpCheck(p) \/ EpInsert(p) \/ EpUpdate(p) \/ EpFetch(p) \/ EpCommit(p)
        \/ \E r \in CreateRequests : CrStart(p, r)
        \/ NumCheck(p) \/ NumInsert(p) \/ NumUpdate(p) \/ NumFetch(p)
        \/ CrBegin(p) \/ CrInvoice(p) \/ CrItem(p) \/ CrPayment(p) \/ CrAllocation(p)
        \/ CrReceipt(p) \/ CrReceiptItem(p) \/ CrCommit(p)
        \/ \E token \in TokenKinds, id \in RequestIds : DiStart(p, token, id)
        \/ DiBegin(p) \/ DiSelect(p) \/ DiPayments(p) \/ DiAudit(p) \/ DiReceiptItems(p)
        \/ DiReceipts(p) \/ DiAllocations(p) \/ DiPaymentsDelete(p) \/ DiCredit(p)
        \/ DiStock(p) \/ DiItems(p) \/ DiInvoice(p) \/ DiCommit(p)
        \/ \E token \in TokenKinds, id \in RequestIds \union {-1} : DrStart(p, token, id)
        \/ DrBegin(p) \/ DrSelect(p) \/ DrItems(p) \/ DrAudit(p) \/ DrAllocations(p)
        \/ DrPayment(p) \/ DrInvoice(p) \/ DrSum(p) \/ DrUpdate(p) \/ DrReceipt(p)
        \/ DrCommit(p)
        \/ StoreFailure(p)
        \/ \E throws \in BOOLEAN : DiPaymentsFails(p, throws)
        \/ Return(p)

Spec == Init /\ [][Next]_vars

\* Concurrent get_next_document_number requests, no store failure.
NextAlloc ==
    \E p \in Procs :
        \/ \E type \in ReqTypes, year \in ReqYears : EpStart(p, type, year)
        \/ EpCheck(p) \/ EpInsert(p) \/ EpUpdate(p) \/ EpFetch(p) \/ EpCommit(p)
        \/ Return(p)

SpecAlloc == Init /\ [][NextAlloc]_vars

\* Concurrent create_receipt_with_items_transaction requests, no store failure.
ConcurrentCreateRequests ==
    {CreateRequest("admin", 1, 1, [has_amount |-> TRUE, amount |-> 2, payment_number |-> pn],
                   [has_total |-> FALSE, total_amount |-> 0, invoice_number |-> inn],
                   <<ItemA, ItemB>>) : pn \in {<<>>, CallerPaymentNumber}, inn \in {<<>>, CallerInvoiceNumber}}

NextCreate ==
    \E p \in Procs :
        \/ \E r \in ConcurrentCreateRequests : CrStart(p, r)
        \/ NumCheck(p) \/ NumInsert(p) \/ NumUpdate(p) \/ NumFetch(p)
        \/ CrBegin(p) \/ CrInvoice(p) \/ CrItem(p) \/ CrPayment(p) \/ CrAllocation(p)
        \/ CrReceipt(p) \/ CrReceiptItem(p) \/ CrCommit(p)
        \/ Return(p)

SpecCreate == Init /\ [][NextCreate]_vars

\* The rows written through the create action: an invoice without a payment, a
\* further payment of an invoice with its allocation and its receipt, audit
\* rows of an invoice and of a payment, a credit note allocation and a stock
\* movement of an invoice.
GenericRows ==
    {<<"invoices", [company_id |-> 1, customer_id |-> 1,
                    invoice_number |-> DocumentNumber("INV", Now, 8), status |-> "draft",
                    total_amount |-> 5, paid_amount |-> 0, balance_due |-> 5]>>,
     <<"payments", [company_id |-> 1, invoice_id |-> 1, amount |-> 3,
                    payment_number |-> DocumentNumber("PAY", Now, 8)]>>,
     <<"payment_audit_log", [id |-> 1, payment_id |-> 0, invoice_id |-> 1]>>,
     <<"payment_audit_log", [id |-> 2, payment_id |-> 1, invoice_id |-> 0]>>,
     <<"credit_note_allocations", [id |-> 1, invoice_id |-> 1]>>,
     <<"stock_movements", [id |-> 1, reference_type |-> "INVOICE", reference_id |-> 1]>>}
    \union {<<"payment_allocations", [payment_id |-> pid, invoice_id |-> 1, amount |-> 3]>> :
                pid \in {1, 2}}
    \union {<<"receipts", [company_id |-> 1, payment_id |-> pid, invoice_id |-> 1,
                           receipt_number |-> ReceiptNumber, total_amount |-> 3,
                           excess_amount |-> 0, excess_handling |-> "pending"]>> :
                pid \in {1, 2}}

\* The callers of the create action name rows that exist: the invoice and the
\* payment a row refers to are in the store (0: it names none).
RefersToRows(data) ==
    /\ "invoice_id" \in DOMAIN data =>
          (data.invoice_id = 0 \/ \E r \in db.invoices : r.id = data.invoice_id)
    /\ "payment_id" \in DOMAIN data =>
          (data.payment_id = 0 \/ \E r \in db.payments : r.id = data.payment_id)
    /\ "reference_id" \in DOMAIN data => \E r \in db.invoices : r.id = data.reference_id

\* A partial payment of 2 against two items that total 5, with the caller's
\* own numbers.
CascadeCreateRequests ==
    {CreateRequest("admin", 1, 1,
                   [has_amount |-> TRUE, amount |-> 2, payment_number |-> CallerPaymentNumber],
                   [has_total |-> FALSE, total_amount |-> 0,
                    invoice_number |-> CallerInvoiceNumber],
                   <<ItemA, ItemB>>)}

\* The ids the rows of the cascades can have.
CascadeIds == 1..2

\* One request at a time on a store that the create action filled as well: the
\* creation and the two cascades, no store failure.
NextCascade ==
    \E p \in SerialProcs :
        \/ \E g \in GenericRows : RefersToRows(g[2]) /\ Create(p, g[1], g[2])
        \/ \E r \in CascadeCreateRequests : CrStart(p, r)
        \/ CrBegin(p) \/ CrInvoice(p) \/ CrItem(p) \/ CrPayment(p) \/ CrAllocation(p)
        \/ CrReceipt(p) \/ CrReceiptItem(p) \/ CrCommit(p)
        \/ \E id \in CascadeIds : DiStart(p, "admin", id)
        \/ DiBegin(p) \/ DiSelect(p) \/ DiPayments(p) \/ DiAudit(p) \/ DiReceiptItems(p)
        \/ DiReceipts(p) \/ DiAllocations(p) \/ DiPaymentsDelete(p) \/ DiCredit(p)
        \/ DiStock(p) \/ DiItems(p) \/ DiInvoice(p) \/ DiCommit(p)
        \/ \E id \in CascadeIds : DrStart(p, "admin", id)
        \/ DrBegin(p) \/ DrSelect(p) \/ DrItems(p) \/ DrAudit(p) \/ DrAllocations(p)
        \/ DrPayment(p) \/ DrInvoice(p) \/ DrSum(p) \/ DrUpdate(p) \/ DrReceipt(p)
        \/ DrCommit(p)
        \/ Return(p)

SpecCascade == Init /\ [][NextCascade]_vars

\* The store after the create request of CascadeCreateRequests (two items
\* that total 5, a payment of 2) and a second payment of 3 for the same
\* invoice entered with its allocation and its receipt through the create
\* action: one invoice, two payments, two allocations, two receipts.
StoreWithTwoReceipts ==
    [invoices |-> {[id |-> 1, company_id |-> 1, customer_id |-> 1,
                    invoice_number |-> CallerInvoiceNumber,
                    status |-> CreateStatus(2, 5), total_amount |-> 5,
                    paid_amount |-> CreatePaidAmount(2, 5),
                    balance_due |-> CreateBalanceDue(2, 5)]},
     invoice_items |-> {InvoiceItemRow(1, ItemA, 1), InvoiceItemRow(1, ItemB, 2)},
     payments |-> {[id |-> 1, company_id |-> 1, invoice_id |-> 1, amount |-> 2,
                    payment_number |-> CallerPaymentNumber],
                   [id |-> 2, company_id |-> 1, invoice_id |-> 1, amount |-> 3,
                    payment_number |-> DocumentNumber("PAY", Now, 8)]},
     payment_allocations |-> {[id |-> 1, payment_id |-> 1, invoice_id |-> 1,
                               amount |-> AllocationAmount(2, 5)],
                              [id |-> 2, payment_id |-> 2, invoice_id |-> 1, amount |-> 3]},
     receipts |-> {[id |-> 1, company_id |-> 1, payment_id |-> 1, invoice_id |-> 1,
                    receipt_number |-> ReceiptNumber, total_amount |-> 2,
                    excess_amount |-> ExcessAmount(2, 5), excess_handling |-> "pending"],
                   [id |-> 2, company_id |-> 1, payment_id |-> 2, invoice_id |-> 1,
                    receipt_number |-> ReceiptNumber, total_amount |-> 3,
                    excess_amount |-> 0, excess_handling |-> "pending"]},
     receipt_items |-> {ReceiptItemRow(1, ItemA, 1), ReceiptItemRow(1, ItemB, 2)},
     payment_audit_log |-> {},
     credit_note_allocations |-> {},
     stock_movements |-> {}]

InitDeletes ==
    /\ pc = [p \in Procs |-> "idle"]
    /\ req = [p \in Procs |-> NoReq]
    /\ loc = [p \in Procs |-> NoLoc]
    /\ resp = [p \in Procs |-> NoResp]
    /\ nreq = 0
    /\ seq = [k \in Keys |-> NoRow]
    /\ seqTx = [k \in Keys |-> NoRow]
    /\ seqLock = [k \in Keys |-> 0]
    /\ db = StoreWithTwoReceipts
    /\ base = [p \in Procs |-> EmptyDb]
    /\ work = [p \in Procs |-> EmptyDb]
    /\ nextId = [invoices |-> 2, payments |-> 3, payment_allocations |-> 3, receipts |-> 3]
    /\ issued = [k \in Keys |-> <<>>]
    /\ asked = [k \in Keys |-> 0]
    /\ leaked = [k \in Keys |-> FALSE]
    /\ nfail = 0
    /\ nrows = 0
    /\ pre = [p \in Procs |-> NoPre]

\* Concurrent delete_receipt_with_cascade and delete_invoice_with_cascade
\* requests on that store, no store failure.
DeleteIds == 1..2

NextDeletes ==
    \E p \in Procs :
        \/ \E id \in DeleteIds : DiStart(p, "admin", id)
        \/ DiBegin(p) \/ DiSelect(p) \/ DiPayments(p) \/ DiAudit(p) \/ DiReceiptItems(p)
        \/ DiReceipts(p) \/ DiAllocations(p) \/ DiPaymentsDelete(p) \/ DiCredit(p)
        \/ DiStock(p) \/ DiItems(p) \/ DiInvoice(p) \/ DiCommit(p)
        \/ \E id \in DeleteIds : DrStart(p, "admin", id)
        \/ DrBegin(p) \/ DrSelect(p) \/ DrItems(p) \/ DrAudit(p) \/ DrAllocations(p)
        \/ DrPayment(p) \/ DrInvoice(p) \/ DrSum(p) \/ DrUpdate(p) \/ DrReceipt(p)
        \/ DrCommit(p)
        \/ Return(p)

SpecDeletes == InitDeletes /\ [][NextDeletes]_vars

\* The client-side deletion of an invoice, one request at a time, on a store
\* made by one create request and rows of the create action; its calls can fail.
NextClient ==
    \E p \in SerialProcs :
        \/ \E g \in GenericRows : RefersToRows(g[2]) /\ Create(p, g[1], g[2])
        \/ \E r \in CascadeCreateRequests : CrStart(p, r)
        \/ CrBegin(p) \/ CrInvoice(p) \/ CrItem(p) \/ CrPayment(p) \/ CrAllocation(p)
        \/ CrReceipt(p) \/ CrReceiptItem(p) \/ CrCommit(p)
        \/ \E id \in CascadeIds : UdStart(p, id)
        \/ \E fails \in BOOLEAN : UdSelectItems(p, fails)
        \/ \E item \in db.invoice_items, fails \in BOOLEAN : UdDeleteItem(p, item, fails)
        \/ \E fails \in BOOLEAN : UdSelectAllocations(p, fails)
        \/ \E a \in db.payment_allocations, fails \in BOOLEAN : UdDeleteAllocation(p, a, fails)
        \/ \E fails \in BOOLEAN : UdDeleteInvoice(p, fails)
        \/ Return(p)

SpecClient == Init /\ [][NextClient]_vars

\* -------------------------------------------------------------------- claims

Quiescent == \A p \in Procs : pc[p] \in {"idle", "done", "failed"}

NoDuplicates(numbers) ==
    \A i, j \in 1..Len(numbers) : i # j => numbers[i] # numbers[j]

\* The counter of key k before request p, 0 when there was no row.
CounterBefore(p, k) == IF pre[p].seq[k] = NoRow THEN 0 ELSE pre[p].seq[k]

IsCreate(p) == req[p].op = "create_receipt_with_items_transaction"
IsAllocate(p) == req[p].op = "get_next_document_number"
IsDeleteReceipt(p) == req[p].op = "delete_receipt_with_cascade"

\* The invoice a finished create request made, as the store has it.
CreatedInvoice(p) == CHOOSE r \in db.invoices : r.id = loc[p].invoiceId

RECURSIVE SumLineTotalRows(_)
SumLineTotalRows(rows) ==
    IF rows = {} THEN 0
    ELSE LET r == CHOOSE x \in rows : TRUE
         IN r.line_total + SumLineTotalRows(rows \ {r})

ItemsOf(invoice_id) == {x \in db.invoice_items : x.invoice_id = invoice_id}

\* C1: N concurrent get_next_document_number requests for one (type, year)
\* whose counter was k (0 when there is no row) are answered with exactly the
\* numbers k+1..k+N. Under SpecAlloc the history starts with no row, so once
\* every request is answered the numbers returned for a key are 1..asked,
\* each once.
C1_ConcurrentRequestsGetConsecutiveNumbers ==
    Quiescent =>
        \A k \in Keys :
            /\ Len(issued[k]) = asked[k]
            /\ NoDuplicates(issued[k])
            /\ {issued[k][i] : i \in 1..Len(issued[k])} = 1..asked[k]

\* C2: two concurrent create_receipt_with_items_transaction requests that let
\* the engine generate their numbers never obtain the same invoice number nor
\* the same payment number: the numbers getNextDocumentNumberInternal returns
\* for one (type, year) are pairwise different.
C2_GeneratedNumbersUnique ==
    \A k \in Keys : NoDuplicates(issued[k])

\* C3: in a sequence of allocation calls, every successful call increases the
\* counter of its own (type, year) by exactly 1 and returns the value after the
\* increment; the first call for a key without a row returns 1, and the
\* returned values increase strictly per key (the i-th is i as long as no
\* failed call left the counter incremented).
C3_SuccessfulCallReturnsPostIncrement ==
    /\ \A p \in SerialProcs :
          /\ (pc[p] = "done" /\ IsAllocate(p)) =>
                /\ resp[p].data.sequence = CounterBefore(p, loc[p].key) + 1
                /\ seq[loc[p].key] = resp[p].data.sequence
                /\ \A k \in Keys \ {loc[p].key} : seq[k] = pre[p].seq[k]
          /\ (IsCreate(p) /\ pc[p] # "failed" /\ loc[p].at = "cr"
                /\ req[p].invoice.invoice_number = <<>> /\ loc[p].invoiceNumber # <<>>) =>
                /\ loc[p].invoiceNumber[3] = CounterBefore(p, <<"INV", Now>>) + 1
                /\ seq[<<"INV", Now>>] = loc[p].invoiceNumber[3]
          /\ (IsCreate(p) /\ pc[p] # "failed" /\ loc[p].at = "cr"
                /\ req[p].payment.payment_number = <<>> /\ loc[p].paymentNumber # <<>>) =>
                /\ loc[p].paymentNumber[3] = CounterBefore(p, <<"PAY", Now>>) + 1
                /\ seq[<<"PAY", Now>>] = loc[p].paymentNumber[3]
    /\ \A k \in Keys :
          /\ \A i, j \in 1..Len(issued[k]) : i < j => issued[k][i] < issued[k][j]
          /\ ~leaked[k] => \A i \in 1..Len(issued[k]) : issued[k][i] = i

C3_Witness ==
    /\ issued[<<"INV", Now>>] = <<1, 2>>
    /\ \E p \in SerialProcs :
          IsCreate(p) /\ pc[p] = "done" /\ loc[p].invoiceNumber = DocumentNumber("INV", Now, 2)

\* The document types the allocator is specified to know: invoice, proforma,
\* quotation, purchase order, delivery note, credit note, payment, receipt and
\* remittance.
EnumeratedTypes == {"INV", "PRO", "QT", "PO", "LPO", "DN", "CN", "PAY", "REC", "RA", "REM"}

YearInRange(year) == year = 0 \/ (year >= MinYear /\ year <= Now + YearSlack)

\* C4: allocateDocumentNumber accepts every type of the enumerated set on
\* every entry point, and for a type outside the set or a year outside
\* [2000, current year + 10] it fails without creating or changing a counter.
C4_EnumeratedTypesAcceptedOthersRejected ==
    \A p \in SerialProcs :
        (IsAllocate(p) /\ pc[p] # "idle") =>
            /\ (req[p].type \in EnumeratedTypes /\ YearInRange(req[p].year)) =>
                  ~(pc[p] = "failed" /\ resp[p].message
                        \in {"Missing document type", "Invalid document type", "Invalid year"})
            /\ (req[p].type \notin EnumeratedTypes \/ ~YearInRange(req[p].year)) =>
                  /\ pc[p] = "failed"
                  /\ seq = pre[p].seq

\* C5: creation is all-or-nothing: when a write of the create transaction
\* fails (in particular the last one, a receipt_items insert), no row written
\* by the call exists afterwards: the document tables are as they were before
\* the call.
C5_FailedCreateLeavesNoRow ==
    \A p \in SerialProcs :
        (IsCreate(p) /\ pc[p] = "failed") => db = pre[p].db

C5_Witness ==
    \E p \in SerialProcs :
        /\ IsCreate(p) /\ pc[p] = "failed"
        /\ resp[p].message = "store failure"
        /\ loc[p].at = "cr"
        /\ Len(req[p].items) = 2
        /\ loc[p].wrote = 7

\* C6: document numbers are gap-free across failures: when the create
\* transaction fails after the numbers were drawn, the INV and PAY counters
\* have the values they had before the call.
C6_FailedCreateLeavesCounters ==
    \A p \in SerialProcs :
        (IsCreate(p) /\ pc[p] = "failed" /\ loc[p].at = "cr" /\ loc[p].wrote > 0) =>
            seq = pre[p].seq

\* C7 as stated: after every successful create, for every input, the invoice's
\* total_amount equals the sum of line_total over its invoice_items rows.
C7_TotalIsSumOfItemsAlways ==
    \A p \in SerialProcs :
        (IsCreate(p) /\ pc[p] = "done") =>
            CreatedInvoice(p).total_amount = SumLineTotalRows(ItemsOf(loc[p].invoiceId))

\* C7 as amended: after a successful create with a non-empty items list the
\* invoice's total_amount equals the sum of line_total over its invoice_items
\* rows, one row per item; with an empty list no item row is written and the
\* total is the caller's invoice.total_amount, 0 when there is none.
C7_TotalIsSumOfItemsWhenItemsGiven ==
    \A p \in SerialProcs :
        (IsCreate(p) /\ pc[p] = "done") =>
            /\ Cardinality(ItemsOf(loc[p].invoiceId)) = Len(req[p].items)
            /\ Len(req[p].items) > 0 =>
                  CreatedInvoice(p).total_amount = SumLineTotalRows(ItemsOf(loc[p].invoiceId))
            /\ Len(req[p].items) = 0 =>
                  CreatedInvoice(p).total_amount =
                      (IF req[p].invoice.has_total THEN req[p].invoice.total_amount ELSE 0)

C7_Witness ==
    \E p \in SerialProcs :
        /\ IsCreate(p) /\ pc[p] = "done"
        /\ Len(req[p].items) = 2
        /\ req[p].invoice.has_total
        /\ CreatedInvoice(p).total_amount = 5

\* C8: after every successful create the invoice satisfies
\* paid_amount + balance_due = total_amount, for a zero, a partial, an exact
\* and an over-payment.
C8_PaidPlusBalanceIsTotal ==
    \A p \in SerialProcs :
        (IsCreate(p) /\ pc[p] = "done") =>
            CreatedInvoice(p).paid_amount + CreatedInvoice(p).balance_due
                = CreatedInvoice(p).total_amount

C8_Witness ==
    \E p \in SerialProcs :
        /\ IsCreate(p) /\ pc[p] = "done"
        /\ req[p].payment.amount > CreatedInvoice(p).total_amount
        /\ CreatedInvoice(p).total_amount > 0

\* C9: in every state reached by creates and cascade deletes, each invoice's
\* paid_amount equals the sum of the amounts of the payment_allocations rows
\* of that invoice.
C9_PaidAmountIsSumOfAllocations ==
    \A inv \in db.invoices : inv.paid_amount = PaidSum(db, inv.id)

\* C10 as stated: for invoice total T and paid amount P the stored status is
\* 'paid' iff P >= T, 'partial' iff 0 < P < T and 'draft' iff P = 0 (so T = 0
\* with P = 0 is 'draft').
C10_StatusAsStated ==
    \A inv \in db.invoices :
        /\ inv.status = "paid" <=> inv.paid_amount >= inv.total_amount
        /\ inv.status = "partial" <=> (0 < inv.paid_amount /\ inv.paid_amount < inv.total_amount)
        /\ inv.status = "draft" <=> inv.paid_amount = 0

\* C10 as amended: with P the amount paid against the invoice (the payment at
\* creation, the sum of the remaining allocations at the recompute), the
\* stored status is 'paid' iff P >= T, 'partial' iff 0 < P < T and 'draft' iff
\* P < T and P <= 0; T = 0 with P = 0 is 'paid'.
C10_StatusFromAmountPaid ==
    \A inv \in db.invoices :
        LET T == inv.total_amount
            P == PaidSum(db, inv.id)
        IN /\ inv.status \in {"paid", "partial", "draft"}
           /\ inv.status = "paid" <=> P >= T
           /\ inv.status = "partial" <=> (0 < P /\ P < T)
           /\ inv.status = "draft" <=> (P < T /\ P <= 0)

C10_Witness ==
    \E p \in SerialProcs :
        /\ IsDeleteReceipt(p) /\ pc[p] = "done"
        /\ \E inv \in db.invoices :
              /\ inv.id = loc[p].invoiceId
              /\ inv.total_amount = 0 /\ inv.paid_amount = 0 /\ inv.status = "paid"

\* The payment and the receipt a finished create request made, as the store
\* has them.
CreatedPayment(p) == CHOOSE r \in db.payments : r.id = loc[p].paymentId
CreatedReceipt(p) == CHOOSE r \in db.receipts : r.id = loc[p].receiptId

\* C11: the receipt of a successful create has
\* excess_amount = max(0, payment amount - invoice total): the difference when
\* the payment exceeds the total, 0 whenever it does not; the response reports
\* the same amount.
C11_ExcessIsPaymentOverTotal ==
    \A p \in SerialProcs :
        (IsCreate(p) /\ pc[p] = "done") =>
            /\ CreatedReceipt(p).excess_amount =
                  (IF CreatedPayment(p).amount > CreatedInvoice(p).total_amount
                   THEN CreatedPayment(p).amount - CreatedInvoice(p).total_amount
                   ELSE 0)
            /\ resp[p].data.excess_amount = CreatedReceipt(p).excess_amount

C11_Witness ==
    \E p \in SerialProcs :
        /\ IsCreate(p) /\ pc[p] = "done"
        /\ CreatedPayment(p).amount = 7
        /\ CreatedInvoice(p).total_amount = 5
        /\ CreatedReceipt(p).excess_amount = 2

\* C12: a create request that lacks company_id, lacks customer_id, lacks
\* payment.amount or carries a negative payment.amount is rejected with a
\* validation error before any row is written and before any sequence counter
\* is advanced.
C12_InvalidCreateRejectedBeforeAnyWrite ==
    \A p \in SerialProcs :
        (/\ IsCreate(p)
         /\ \/ req[p].company_id = 0
            \/ req[p].customer_id = 0
            \/ ~req[p].payment.has_amount
            \/ req[p].payment.amount < 0) =>
            /\ pc[p] = "failed"
            /\ resp[p].message \in {"Authentication required",
                                    "Missing company_id or customer_id",
                                    "Missing or invalid payment data"}
            /\ db = pre[p].db
            /\ seq = pre[p].seq

IsDeleteInvoice(p) == req[p].op = "delete_invoice_with_cascade"

\* The rows of the dependent tables that reference invoice id: by their
\* invoice_id (reference_id for a stock movement), and the items of a receipt
\* of the invoice.
ReferencingInvoice(tables, id) ==
    [invoice_items |-> {x \in tables.invoice_items : x.invoice_id = id},
     payments |-> {x \in tables.payments : x.invoice_id = id},
     payment_allocations |-> {x \in tables.payment_allocations : x.invoice_id = id},
     receipts |-> {x \in tables.receipts : x.invoice_id = id},
     receipt_items |-> {x \in tables.receipt_items :
                          \E r \in tables.receipts : r.id = x.receipt_id /\ r.invoice_id = id},
     payment_audit_log |-> {x \in tables.payment_audit_log : x.invoice_id = id},
     credit_note_allocations |-> {x \in tables.credit_note_allocations : x.invoice_id = id},
     stock_movements |-> {x \in tables.stock_movements :
                            x.reference_type = "INVOICE" /\ x.reference_id = id}]

NoReference == [t \in Tables \ {"invoices"} |-> {}]

\* C13: after a successful delete_invoice_with_cascade(id), from any prior
\* state, no row of invoice_items, payments, payment_allocations, receipts,
\* receipt_items, payment_audit_log, credit_note_allocations or stock_movements
\* references id, and the items of the receipts that referenced it are gone.
C13_NoRowReferencesDeletedInvoice ==
    \A p \in SerialProcs :
        (IsDeleteInvoice(p) /\ pc[p] = "done") =>
            /\ ReferencingInvoice(db, req[p].invoice_id) = NoReference
            /\ ReferencingInvoice(pre[p].db, req[p].invoice_id).receipt_items
                   \intersect db.receipt_items = {}

\* C14: delete_invoice_with_cascade on an id for which no invoice row exists,
\* a second call after a successful deletion included, fails with "Invoice not
\* found" and writes nothing; a successful call removes the invoice row, and
\* the store never gives the id of a removed invoice to a new one, so no
\* invoice is reported deleted twice.
C14_MissingInvoiceIsNotFound ==
    /\ \A p \in SerialProcs :
          (IsDeleteInvoice(p) /\ pc[p] \in {"done", "failed"}) =>
              IF \A r \in pre[p].db.invoices : r.id # req[p].invoice_id
              THEN /\ pc[p] = "failed"
                   /\ resp[p].message = "Invoice not found"
                   /\ db = pre[p].db
              ELSE /\ pc[p] = "done"
                   /\ \A r \in db.invoices : r.id # req[p].invoice_id
    /\ \A r \in db.invoices : r.id < nextId.invoices

\* The second call for an invoice that an earlier call deleted.
C14_Witness ==
    \E p \in SerialProcs :
        /\ IsDeleteInvoice(p) /\ pc[p] = "failed"
        /\ resp[p].message = "Invoice not found"
        /\ req[p].invoice_id < nextId.invoices
        /\ db.invoices = {}

\* C15: when a statement of the invoice-deletion plan or of the
\* receipt-deletion plan fails, whichever step it is, the request fails, the
\* transaction is rolled back and every table, the parent invoice's
\* paid_amount, balance_due and status included, is as it was before the call.
C15_FailedDeleteLeavesStore ==
    \A p \in SerialProcs :
        (/\ IsDeleteInvoice(p) \/ IsDeleteReceipt(p)
         /\ pc[p] \in {"done", "failed"}
         /\ nfail > pre[p].nfail) =>
            /\ pc[p] = "failed"
            /\ db = pre[p].db

\* The sum of the amounts of the allocations that are linked to invoice id.
RECURSIVE SumOfAllocations(_)
SumOfAllocations(rows) ==
    IF rows = {} THEN 0
    ELSE LET r == CHOOSE x \in rows : TRUE
         IN r.amount + SumOfAllocations(rows \ {r})

AllocatedTo(id) == SumOfAllocations({a \in db.payment_allocations : a.invoice_id = id})

\* C16: after a successful delete_receipt_with_cascade of a receipt linked to
\* an existing invoice I, I.paid_amount is the sum of the allocations still
\* linked to I, I.balance_due is max(0, total - paid_amount) and I.status
\* follows from the two: 'paid' when paid_amount >= total, 'partial' when
\* 0 < paid_amount < total, 'draft' otherwise; nothing else of I changes.
C16_ReceiptReversalRecomputesInvoice ==
    \A p \in SerialProcs :
        (IsDeleteReceipt(p) /\ pc[p] = "done") =>
            \A r \in pre[p].db.receipts, old \in pre[p].db.invoices :
                (r.id = req[p].receipt_id /\ old.id = r.invoice_id) =>
                    \E inv \in db.invoices :
                        /\ inv.id = old.id
                        /\ inv.total_amount = old.total_amount
                        /\ inv.paid_amount = AllocatedTo(inv.id)
                        /\ inv.balance_due =
                              (IF inv.total_amount > inv.paid_amount
                               THEN inv.total_amount - inv.paid_amount ELSE 0)
                        /\ inv.status =
                              (IF inv.paid_amount >= inv.total_amount THEN "paid"
                               ELSE IF inv.paid_amount > 0 THEN "partial" ELSE "draft")

\* Of two receipts (2 and 3) against a total of 5 the receipt of 3 is deleted:
\* 2 paid, 3 due, partial.
C16_Witness ==
    \E p \in SerialProcs :
        /\ IsDeleteReceipt(p) /\ pc[p] = "done"
        /\ \E inv \in db.invoices :
              /\ inv.id = loc[p].invoiceId
              /\ inv.total_amount = 5 /\ inv.paid_amount = 2 /\ inv.balance_due = 3
              /\ inv.status = "partial"
        /\ loc[p].receiptAmount = 3
        /\ Cardinality({a \in pre[p].db.payment_allocations :
                           a.invoice_id = loc[p].invoiceId}) = 2

\* C17: delete_receipt_with_cascade on an id for which no receipt row exists,
\* or on a non-positive id, fails and changes no row of any table; an
\* authorized call whose statements all run fails with "Receipt not found"
\* for a positive id, and with the validation error of the id otherwise.
C17_MissingReceiptIsNotFound ==
    \A p \in SerialProcs :
        (/\ IsDeleteReceipt(p)
         /\ pc[p] \in {"done", "failed"}
         /\ \/ req[p].receipt_id <= 0
            \/ \A r \in pre[p].db.receipts : r.id # req[p].receipt_id) =>
            /\ pc[p] = "failed"
            /\ db = pre[p].db
            /\ (req[p].token = "admin" /\ nfail = pre[p].nfail) =>
                  resp[p].message =
                      (IF req[p].receipt_id > 0 THEN "Receipt not found"
                       ELSE IF req[p].receipt_id = 0 THEN "Missing receipt_id parameter"
                       ELSE "Invalid receipt_id: must be a positive integer")

\* A receipt that is not there is asked for while another one is.
C17_Witness ==
    \E p \in SerialProcs :
        /\ IsDeleteReceipt(p) /\ pc[p] = "failed"
        /\ resp[p].message = "Receipt not found"
        /\ db.receipts # {} /\ db.receipt_items # {}
        /\ db = pre[p].db

IsFinancialMutation(p) == IsCreate(p) \/ IsDeleteInvoice(p) \/ IsDeleteReceipt(p)

\* C18: a request for one of the three financial mutations
\* (create_receipt_with_items_transaction, delete_invoice_with_cascade,
\* delete_receipt_with_cascade) whose caller does not pass the authorization
\* check fails, writes and deletes no row, and leaves the store as it was.
C18_UnauthorizedRequestLeavesStore ==
    \A p \in SerialProcs :
        (IsFinancialMutation(p) /\ req[p].token # "admin") =>
            /\ pc[p] # "done"
            /\ work[p] = base[p]
            /\ db = pre[p].db

\* The rows of table t that the open transaction of p has written so far.
Written(p, t) == work[p][t] \ base[p][t]

\* The rows of table t that the request of p has added to the store.
Added(p, t) == db[t] \ pre[p].db[t]

InCreateTx ==
    {"cr_invoice", "cr_items", "cr_payment", "cr_allocation", "cr_receipt", "cr_ritems",
     "cr_commit"}

\* C19: within one create_receipt_with_items_transaction the writes happen in
\* the order invoice row, all invoice items, payment row, allocation row,
\* receipt row, all receipt items: a table has rows of the transaction only
\* when every table before it is complete; every written row references a row
\* written before it; nothing is in the store before the commit, and after
\* the commit the whole graph with the last receipt item is.
C19_CreateWritesInOrder ==
    \A p \in SerialProcs :
        /\ (IsCreate(p) /\ pc[p] \in InCreateTx) =>
              LET n == Len(req[p].items)
                  nInvoices == Cardinality(Written(p, "invoices"))
                  nItems == Cardinality(Written(p, "invoice_items"))
                  nPayments == Cardinality(Written(p, "payments"))
                  nAllocations == Cardinality(Written(p, "payment_allocations"))
                  nReceipts == Cardinality(Written(p, "receipts"))
                  nReceiptItems == Cardinality(Written(p, "receipt_items"))
              IN /\ nInvoices <= 1 /\ nItems <= n /\ nPayments <= 1
                 /\ nAllocations <= 1 /\ nReceipts <= 1 /\ nReceiptItems <= n
                 /\ nItems > 0 => nInvoices = 1
                 /\ nPayments > 0 => (nInvoices = 1 /\ nItems = n)
                 /\ nAllocations > 0 => nPayments = 1
                 /\ nReceipts > 0 => nAllocations = 1
                 /\ nReceiptItems > 0 => nReceipts = 1
                 /\ \A r \in Written(p, "invoice_items") :
                       \E i \in Written(p, "invoices") : i.id = r.invoice_id
                 /\ \A r \in Written(p, "payments") :
                       \E i \in Written(p, "invoices") : i.id = r.invoice_id
                 /\ \A r \in Written(p, "payment_allocations") :
                       /\ \E i \in Written(p, "invoices") : i.id = r.invoice_id
                       /\ \E y \in Written(p, "payments") : y.id = r.payment_id
                 /\ \A r \in Written(p, "receipts") :
                       /\ \E i \in Written(p, "invoices") : i.id = r.invoice_id
                       /\ \E y \in Written(p, "payments") : y.id = r.payment_id
                 /\ \A r \in Written(p, "receipt_items") :
                       \E c \in Written(p, "receipts") : c.id = r.receipt_id
                 /\ pc[p] = "cr_commit" => (nReceipts = 1 /\ nReceiptItems = n)
                 /\ db = pre[p].db
        /\ (IsCreate(p) /\ pc[p] = "done") =>
              /\ Cardinality(Added(p, "invoices")) = 1
              /\ Cardinality(Added(p, "invoice_items")) = Len(req[p].items)
              /\ Cardinality(Added(p, "payments")) = 1
              /\ Cardinality(Added(p, "payment_allocations")) = 1
              /\ Cardinality(Added(p, "receipts")) = 1
              /\ Cardinality(Added(p, "receipt_items")) = Len(req[p].items)

\* The first of two receipt items is written, the second and the commit are
\* still to come.
C19_Witness ==
    \E p \in SerialProcs :
        /\ IsCreate(p) /\ pc[p] = "cr_ritems"
        /\ Len(req[p].items) = 2
        /\ Cardinality(Written(p, "receipt_items")) = 1
        /\ Cardinality(Written(p, "invoice_items")) = 2
        /\ db = pre[p].db

CascadeOrder ==
    <<"payment_audit_log", "receipt_items", "receipts", "payment_allocations", "payments",
      "credit_note_allocations", "stock_movements", "invoice_items", "invoices">>

InDeleteInvoiceTx ==
    {"di_select", "di_payments", "di_audit", "di_receipt_items", "di_receipts",
     "di_allocations", "di_payments_delete", "di_credit", "di_stock", "di_items",
     "di_invoice", "di_commit"}

\* The payments linked to invoice id when the cascade began, directly or
\* through an allocation.
LinkedPayments(p, id) ==
    {y.id : y \in {x \in base[p].payments :
                     \/ x.invoice_id = id
                     \/ \E a \in base[p].payment_allocations :
                            a.invoice_id = id /\ a.payment_id = x.id}}

\* The rows of table t that the cascade for invoice id covers: the audit rows
\* of the linked payments, the receipts of those payments and their items,
\* the allocations, the directly linked payments, the credit note allocations,
\* the stock movements and the items of the invoice, and the invoice.
Covered(p, t, id) ==
    CASE t = "payment_audit_log" ->
            {x \in base[p][t] : x.payment_id \in LinkedPayments(p, id)}
      [] t = "receipt_items" ->
            {x \in base[p][t] : \E r \in base[p].receipts :
                                   r.id = x.receipt_id /\ r.payment_id \in LinkedPayments(p, id)}
      [] t = "receipts" -> {x \in base[p][t] : x.payment_id \in LinkedPayments(p, id)}
      [] t = "stock_movements" ->
            {x \in base[p][t] : x.reference_type = "INVOICE" /\ x.reference_id = id}
      [] t = "invoices" -> {x \in base[p][t] : x.id = id}
      [] OTHER -> {x \in base[p][t] : x.invoice_id = id}

\* The covered rows that the transaction of p has not deleted yet.
Remaining(p, t) == Covered(p, t, req[p].invoice_id) \intersect work[p][t]

\* Row id of table t was there when the transaction of p began and is deleted.
Deleted(p, t, id) == \E x \in base[p][t] \ work[p][t] : x.id = id

\* C20: delete_invoice_with_cascade deletes in the order payment_audit_log,
\* receipt_items, receipts, payment_allocations, payments,
\* credit_note_allocations, stock_movements, invoice_items, invoice: a table
\* loses rows only when no covered row of an earlier table remains, so that at
\* every step no remaining covered row references a payment, receipt or
\* invoice that is already deleted, and before the commit no covered row
\* remains.
C20_CascadeDeletesChildrenFirst ==
    \A p \in SerialProcs :
        (IsDeleteInvoice(p) /\ pc[p] \in InDeleteInvoiceTx) =>
            /\ \A i, j \in 1..Len(CascadeOrder) :
                  (i < j /\ work[p][CascadeOrder[j]] # base[p][CascadeOrder[j]]) =>
                      Remaining(p, CascadeOrder[i]) = {}
            /\ \A x \in Remaining(p, "payment_audit_log") :
                  ~Deleted(p, "payments", x.payment_id) /\ ~Deleted(p, "invoices", x.invoice_id)
            /\ \A x \in Remaining(p, "receipt_items") : ~Deleted(p, "receipts", x.receipt_id)
            /\ \A x \in Remaining(p, "receipts") :
                  ~Deleted(p, "payments", x.payment_id) /\ ~Deleted(p, "invoices", x.invoice_id)
            /\ \A x \in Remaining(p, "payment_allocations") :
                  ~Deleted(p, "payments", x.payment_id) /\ ~Deleted(p, "invoices", x.invoice_id)
            /\ \A x \in Remaining(p, "payments") : ~Deleted(p, "invoices", x.invoice_id)
            /\ \A x \in Remaining(p, "credit_note_allocations") :
                  ~Deleted(p, "invoices", x.invoice_id)
            /\ \A x \in Remaining(p, "stock_movements") : ~Deleted(p, "invoices", x.reference_id)
            /\ \A x \in Remaining(p, "invoice_items") : ~Deleted(p, "invoices", x.invoice_id)
            /\ pc[p] = "di_commit" =>
                  \A i \in 1..Len(CascadeOrder) : Remaining(p, CascadeOrder[i]) = {}

\* Half way: the audit rows, receipts, allocations and payments are deleted,
\* the credit note allocation, the items and the invoice are still there.
C20_Witness ==
    \E p \in SerialProcs :
        /\ IsDeleteInvoice(p) /\ pc[p] = "di_credit"
        /\ work[p].payment_audit_log # base[p].payment_audit_log
        /\ work[p].receipt_items # base[p].receipt_items
        /\ work[p].payments # base[p].payments
        /\ Remaining(p, "credit_note_allocations") # {}
        /\ Remaining(p, "invoice_items") # {}
        /\ Remaining(p, "invoices") # {}

InDeleteReceiptTx ==
    {"dr_items", "dr_audit", "dr_allocations", "dr_payment", "dr_invoice", "dr_sum",
     "dr_update", "dr_receipt", "dr_commit"}

\* The receipt that the request of p deletes, as it was when the transaction began.
TheReceipt(p) == CHOOSE r \in base[p].receipts : r.id = req[p].receipt_id

\* The allocations of the receipt's invoice that do not belong to its payment.
AllocationsOfOthers(p) ==
    {a \in base[p].payment_allocations :
        a.invoice_id = TheReceipt(p).invoice_id /\ a.payment_id # TheReceipt(p).payment_id}

\* C21: delete_receipt_with_cascade runs, inside one transaction, the
\* receipt_items delete, the payment_audit_log delete, the payment_allocations
\* delete, the payment delete, the recompute and update of the parent invoice,
\* the receipt delete and then the commit: the sum read for the invoice is the
\* sum of the allocations left once the payment's are removed, the update is
\* in the transaction before the receipt row goes, and the store shows none
\* of it before the commit.
C21_ReceiptCascadeRecomputesBeforeReceiptDelete ==
    \A p \in SerialProcs :
        (IsDeleteReceipt(p) /\ pc[p] \in InDeleteReceiptTx) =>
            LET r == TheReceipt(p)
                itemsLeft == {x \in work[p].receipt_items : x.receipt_id = r.id}
                auditLeft == {x \in work[p].payment_audit_log :
                                 r.payment_id # 0 /\ x.payment_id = r.payment_id}
                allocationsLeft == {x \in work[p].payment_allocations :
                                       r.payment_id # 0 /\ x.payment_id = r.payment_id}
                paymentsLeft == {x \in work[p].payments :
                                    r.payment_id # 0 /\ x.id = r.payment_id}
            IN /\ work[p].payment_audit_log # base[p].payment_audit_log => itemsLeft = {}
               /\ work[p].payment_allocations # base[p].payment_allocations =>
                     (itemsLeft = {} /\ auditLeft = {})
               /\ work[p].payments # base[p].payments =>
                     (itemsLeft = {} /\ auditLeft = {} /\ allocationsLeft = {})
               /\ (pc[p] = "dr_update" \/ work[p].invoices # base[p].invoices) =>
                     /\ itemsLeft = {} /\ auditLeft = {} /\ allocationsLeft = {}
                     /\ paymentsLeft = {}
                     /\ loc[p].paid_amount = SumOfAllocations(AllocationsOfOthers(p))
               /\ work[p].receipts # base[p].receipts =>
                     /\ itemsLeft = {} /\ auditLeft = {} /\ allocationsLeft = {}
                     /\ paymentsLeft = {}
                     /\ \A inv \in work[p].invoices :
                           inv.id = r.invoice_id =>
                               inv.paid_amount = SumOfAllocations(AllocationsOfOthers(p))
               /\ pc[p] = "dr_commit" => work[p].receipts # base[p].receipts
               /\ db = pre[p].db

\* The recomputed invoice is written in the transaction, the receipt row is
\* still there and the store shows the old invoice.
C21_Witness ==
    \E p \in SerialProcs :
        /\ IsDeleteReceipt(p) /\ pc[p] = "dr_receipt"
        /\ work[p].invoices # base[p].invoices
        /\ work[p].payment_audit_log # base[p].payment_audit_log
        /\ AllocationsOfOthers(p) # {}
        /\ work[p].receipts = base[p].receipts
        /\ db = pre[p].db

\* C22: after two concurrent delete_receipt_with_cascade requests on two
\* different receipts of the same invoice have both committed, the invoice's
\* paid_amount is the sum of the allocations it still has, its balance_due is
\* max(0, total - paid_amount) and its status follows from the two.
C22_ConcurrentReceiptDeletesKeepInvoiceInSync ==
    \A p, q \in Procs :
        (/\ p # q
         /\ IsDeleteReceipt(p) /\ IsDeleteReceipt(q)
         /\ pc[p] = "done" /\ pc[q] = "done"
         /\ req[p].receipt_id # req[q].receipt_id
         /\ loc[p].invoiceId = loc[q].invoiceId) =>
            \A inv \in db.invoices :
                inv.id = loc[p].invoiceId =>
                    /\ inv.paid_amount = AllocatedTo(inv.id)
                    /\ inv.balance_due =
                          (IF inv.total_amount > inv.paid_amount
                           THEN inv.total_amount - inv.paid_amount ELSE 0)
                    /\ inv.status =
                          (IF inv.paid_amount >= inv.total_amount THEN "paid"
                           ELSE IF inv.paid_amount > 0 THEN "partial" ELSE "draft")

InvKey == <<"INV", Now>>
PayKey == <<"PAY", Now>>

\* C23: when the caller supplies invoice_number (respectively payment_number),
\* create_receipt_with_items_transaction stores exactly that number and leaves
\* the INV (respectively PAY) counter of document_sequences as it was; a
\* number is drawn from the counter only for a number the caller did not
\* supply, and the stored number is then one of that counter.
C23_SuppliedNumbersAreStoredAndDrawNothing ==
    \A p \in SerialProcs :
        IsCreate(p) =>
            /\ req[p].invoice.invoice_number # <<>> =>
                  /\ seq[InvKey] = pre[p].seq[InvKey]
                  /\ pc[p] = "done" =>
                        CreatedInvoice(p).invoice_number = req[p].invoice.invoice_number
            /\ req[p].payment.payment_number # <<>> =>
                  /\ seq[PayKey] = pre[p].seq[PayKey]
                  /\ pc[p] = "done" =>
                        CreatedPayment(p).payment_number = req[p].payment.payment_number
            /\ (req[p].invoice.invoice_number = <<>> /\ pc[p] = "done") =>
                  /\ seq[InvKey] # pre[p].seq[InvKey]
                  /\ CreatedInvoice(p).invoice_number[1] = "INV"
            /\ (req[p].payment.payment_number = <<>> /\ pc[p] = "done") =>
                  /\ seq[PayKey] # pre[p].seq[PayKey]
                  /\ CreatedPayment(p).payment_number[1] = "PAY"

\* The caller's invoice number is stored and the INV counter, which an earlier
\* request has started, stays; the payment number is drawn.
C23_Witness ==
    \E p \in SerialProcs :
        /\ IsCreate(p) /\ pc[p] = "done"
        /\ req[p].invoice.invoice_number = CallerInvoiceNumber
        /\ req[p].payment.payment_number = <<>>
        /\ CreatedInvoice(p).invoice_number = CallerInvoiceNumber
        /\ pre[p].seq[InvKey] # NoRow
        /\ seq[InvKey] = pre[p].seq[InvKey]
        /\ seq[PayKey] # pre[p].seq[PayKey]

\* Every receipt has its one payment, and its invoice if it names one.
ReceiptsHaveOwners ==
    \A r \in db.receipts :
        /\ Cardinality({y \in db.payments : y.id = r.payment_id}) = 1
        /\ r.invoice_id # 0 => Cardinality({i \in db.invoices : i.id = r.invoice_id}) = 1

\* A receipt item that is in the store before and after a step is the same row.
ReceiptItemsKept ==
    \A x \in db.receipt_items, y \in db'.receipt_items :
        (x.receipt_id = y.receipt_id /\ x.sort_order = y.sort_order) => x = y

\* C24: in every state reachable by create_receipt_with_items_transaction,
\* delete_receipt_with_cascade and delete_invoice_with_cascade requests, every
\* receipt row has exactly one owning payment that exists and at most one
\* owning invoice, which exists (no cascade deletes a payment or an invoice
\* and leaves a receipt that references it), and no receipt_items row is
\* changed between its creation and its deletion.
C24_ReceiptsKeepTheirOwners == [](ReceiptsHaveOwners) /\ [][ReceiptItemsKept]_vars

IsClientDelete(p) == req[p].op = "useDeleteInvoice"

\* The rows of the invoice that useDeleteInvoice is documented to delete.
OfInvoice(tables, id) ==
    [invoices |-> {x \in tables.invoices : x.id = id},
     invoice_items |-> {x \in tables.invoice_items : x.invoice_id = id},
     payments |-> {x \in tables.payments : x.invoice_id = id},
     payment_allocations |-> {x \in tables.payment_allocations : x.invoice_id = id}]

NothingOfInvoice == [invoices |-> {}, invoice_items |-> {}, payments |-> {},
                     payment_allocations |-> {}]

\* C25: the client-side useDeleteInvoice mutation ends either with the
\* invoice and all of its invoice_items, payments and payment_allocations
\* removed, or, when a step failed, with all of them in place as before.
C25_ClientDeleteIsAllOrNothing ==
    \A p \in SerialProcs :
        (IsClientDelete(p) /\ pc[p] \in {"done", "failed"}) =>
            IF pc[p] = "done"
            THEN OfInvoice(db, req[p].invoice_id) = NothingOfInvoice
            ELSE OfInvoice(db, req[p].invoice_id) = OfInvoice(pre[p].db, req[p].invoice_id)

RecKey == <<"REC", Now>>

PaymentsDeleted(p) == {y \in pre[p].db.payments : \A z \in db.payments : z.id # y.id}

\* C27: after a successful delete_invoice_with_cascade, payments_count is the
\* number of payment rows deleted, and no payment survives of which the
\* cascade removed a receipt or an audit-log row.
C27_CountedPaymentsAreDeleted ==
    \A p \in SerialProcs :
        (IsDeleteInvoice(p) /\ pc[p] = "done") =>
            /\ resp[p].data.payments_count = Cardinality(PaymentsDeleted(p))
            /\ \A y \in db.payments :
                  /\ \A r \in pre[p].db.receipts : r.payment_id = y.id => r \in db.receipts
                  /\ \A a \in pre[p].db.payment_audit_log :
                        a.payment_id = y.id => a \in db.payment_audit_log

\* The invoice a receipt item belongs to: the invoice of its receipt.
InvoiceOfItem(tables, x) ==
    {r.invoice_id : r \in {c \in tables.receipts : c.id = x.receipt_id}}

\* C28: delete_invoice_with_cascade(id) leaves every row of another invoice:
\* no receipt, receipt_items or payment_audit_log row whose invoice is not id
\* is deleted, also when a payment has allocations to id and to another
\* invoice.
C28_CascadeLeavesOtherInvoices ==
    \A p \in SerialProcs :
        (IsDeleteInvoice(p) /\ pc[p] = "done") =>
            /\ \A r \in pre[p].db.receipts :
                  r.invoice_id # req[p].invoice_id => r \in db.receipts
            /\ \A x \in pre[p].db.receipt_items :
                  req[p].invoice_id \notin InvoiceOfItem(pre[p].db, x) => x \in db.receipt_items
            /\ \A a \in pre[p].db.payment_audit_log :
                  (a.invoice_id # 0 /\ a.invoice_id # req[p].invoice_id) =>
                      a \in db.payment_audit_log

\* paid_amount of invoice inv is the sum of its allocations in the tables.
InSync(tables, inv) ==
    inv.paid_amount =
        SumOfAllocations({a \in tables.payment_allocations : a.invoice_id = inv.id})

\* C29: delete_receipt_with_cascade changes only the receipt's own invoice:
\* it deletes no payment_allocations row of another invoice, so that every
\* other invoice whose paid_amount was the sum of its allocations before the
\* call still has that after it.
C29_ReceiptCascadeLeavesOtherInvoices ==
    \A p \in SerialProcs :
        (IsDeleteReceipt(p) /\ pc[p] = "done") =>
            /\ \A a \in pre[p].db.payment_allocations :
                  a.invoice_id # loc[p].invoiceId => a \in db.payment_allocations
            /\ \A inv \in pre[p].db.invoices :
                  (inv.id # loc[p].invoiceId /\ InSync(pre[p].db, inv)) =>
                      (inv \in db.invoices /\ InSync(db, inv))

\* C30: of two delete_invoice_with_cascade requests for the same existing
\* invoice that run concurrently, at most one reports success; the other
\* fails with "Invoice not found".
C30_OneOfTwoConcurrentInvoiceDeletesSucceeds ==
    \A p, q \in Procs :
        (/\ p # q
         /\ IsDeleteInvoice(p) /\ IsDeleteInvoice(q)
         /\ req[p].invoice_id = req[q].invoice_id
         /\ pc[p] = "done") =>
            /\ pc[q] # "done"
            /\ pc[q] = "failed" => resp[q].message = "Invoice not found"

====
